---- MODULE Spec2Model ----
(***************************************************************************)
(* Durable research workflow of cf_ai_scholar: the ResearchWorkflowV2.run  *)
(* state machine (plan-research, research-section-k, compile-report), the  *)
(* /api/research and /api/status handlers, and the helpers they use.       *)
(* Texts are TLA+ strings; Len, SubSeq and \o act on them character-wise.  *)
(***************************************************************************)
EXTENDS Integers, Sequences, FiniteSets, TLC

(***************************************************************************)
(* JavaScript string primitives used by the workflow.                      *)
(***************************************************************************)

\* s.charAt(i-1): the i-th character, "" outside the string.
CharAt(s, i) == IF i >= 1 /\ i <= Len(s) THEN SubSeq(s, i, i) ELSE ""

UpperLetters == "ABCDEFGHIJKLMNOPQRSTUVWXYZ"

LowerLetters == "abcdefghijklmnopqrstuvwxyz"

\* One character of String.prototype.toLowerCase (ASCII letters).
LowerChar(c) ==
    IF \E k \in 1..26 : CharAt(UpperLetters, k) = c
    THEN CharAt(LowerLetters, CHOOSE k \in 1..26 : CharAt(UpperLetters, k) = c)
    ELSE c

\* The regular expression class \s restricted to the characters that occur.
IsSpace(c) == c \in {" ", "\t", "\n", "\r"}

\* End (exclusive, 1-based) of the maximal run of whitespace starting at i.
RECURSIVE SkipSpaces(_, _)
SkipSpaces(s, i) ==
    IF i <= Len(s) /\ IsSpace(CharAt(s, i)) THEN SkipSpaces(s, i + 1) ELSE i

\* What becomes of the k-th character of s under a character-wise rewrite:
\* "lower" is toLowerCase, "noQuestion" is replace(/\?/g, ''), "noComma" is
\* replace(/,(\s*[}\]])/g, '$1').
Rewritten(how, s, k) ==
    LET c == CharAt(s, k)
    IN  CASE how = "lower" -> LowerChar(c)
          [] how = "noQuestion" -> IF c = "?" THEN "" ELSE c
          [] how = "noComma" ->
                 IF c = "," /\ CharAt(s, SkipSpaces(s, k + 1)) \in {"}", "]"}
                 THEN "" ELSE c

\* The characters lo..hi of s rewritten; the range is halved so that long
\* texts nest shallowly.
RECURSIVE MapChars(_, _, _, _)
MapChars(how, s, lo, hi) ==
    IF lo > hi THEN ""
    ELSE IF lo = hi THEN Rewritten(how, s, lo)
    ELSE LET mid == (lo + hi) \div 2
         IN  MapChars(how, s, lo, mid) \o MapChars(how, s, mid + 1, hi)

\* String.prototype.toLowerCase
ToLowerCase(s) == MapChars("lower", s, 1, Len(s))

\* s.substring(from-1, to): characters from..to, clamped to the text.
Sub(s, from, to) ==
    LET lo == IF from < 1 THEN 1 ELSE from
        hi == IF to > Len(s) THEN Len(s) ELSE to
    IN  IF lo > hi THEN "" ELSE SubSeq(s, lo, hi)

\* True when sub occurs in s at (1-based) position i.
OccursAt(s, sub, i) ==
    /\ i >= 1
    /\ i + Len(sub) - 1 <= Len(s)
    /\ Sub(s, i, i + Len(sub) - 1) = sub

\* String.prototype.includes
Includes(s, sub) == \E i \in 1..(Len(s) - Len(sub) + 1) : OccursAt(s, sub, i)

RECURSIVE TrimLeft(_)
TrimLeft(s) ==
    IF Len(s) > 0 /\ IsSpace(CharAt(s, 1)) THEN TrimLeft(Sub(s, 2, Len(s))) ELSE s

RECURSIVE TrimRight(_)
TrimRight(s) ==
    IF Len(s) > 0 /\ IsSpace(CharAt(s, Len(s)))
    THEN TrimRight(Sub(s, 1, Len(s) - 1)) ELSE s

\* String.prototype.trim
Trim(s) == TrimRight(TrimLeft(s))

\* s.split(/\s+/): the pieces between maximal runs of whitespace; a leading
\* or trailing run yields an empty piece, as in JavaScript.
RECURSIVE SplitWsFrom(_, _)
SplitWsFrom(s, p) ==
    LET spaces == {q \in p..Len(s) : IsSpace(CharAt(s, q))}
    IN  IF spaces = {} THEN << Sub(s, p, Len(s)) >>
        ELSE LET q == CHOOSE q \in spaces : \A r \in spaces : q <= r
             IN  << Sub(s, p, q - 1) >> \o SplitWsFrom(s, SkipSpaces(s, q))

SplitWs(s) == SplitWsFrom(s, 1)

\* s.replace(/\?/g, '')
RemoveQuestionMarks(s) == MapChars("noQuestion", s, 1, Len(s))

\* Array.prototype.slice(0, n)
Take(seq, n) == SubSeq(seq, 1, IF Len(seq) < n THEN Len(seq) ELSE n)

(***************************************************************************)
(* JSON.parse.  A parsed value is a record tagged by t:                    *)
(*   [t |-> "str", s |-> text]      [t |-> "num", n |-> literal]           *)
(*   [t |-> "lit", l |-> "true" | "false" | "null"]                        *)
(*   [t |-> "arr", a |-> sequence of values]                               *)
(*   [t |-> "obj", o |-> sequence of [k |-> key, v |-> value]]             *)
(* A parse step yields [ok, val, pos]: pos is the next unread position.    *)
(***************************************************************************)

ParseFail == [ok |-> FALSE, val |-> [t |-> "none"], pos |-> 0]

ParseOk(v, p) == [ok |-> TRUE, val |-> v, pos |-> p]

Digits == {"0", "1", "2", "3", "4", "5", "6", "7", "8", "9"}

\* JSON insignificant whitespace.
RECURSIVE SkipJsonWs(_, _)
SkipJsonWs(s, i) ==
    IF i <= Len(s) /\ CharAt(s, i) \in {" ", "\t", "\n", "\r"}
    THEN SkipJsonWs(s, i + 1) ELSE i

RECURSIVE SkipDigits(_, _)
SkipDigits(s, i) ==
    IF i <= Len(s) /\ CharAt(s, i) \in Digits THEN SkipDigits(s, i + 1) ELSE i

\* The body of a string literal whose opening quote is at i - 1; acc is the
\* decoded text so far.  Control characters may not appear unescaped.
RECURSIVE ParseStringBody(_, _, _)
ParseStringBody(s, i, acc) ==
    IF i > Len(s) THEN ParseFail
    ELSE LET c == CharAt(s, i)
         IN  IF c = "\"" THEN ParseOk([t |-> "str", s |-> acc], i + 1)
             ELSE IF c \in {"\n", "\t", "\r"} THEN ParseFail
             ELSE IF c = "\\"
             THEN LET d == CharAt(s, i + 1)
                  IN  IF d \in {"\"", "\\", "/"}
                      THEN ParseStringBody(s, i + 2, acc \o d)
                      ELSE IF d = "n" THEN ParseStringBody(s, i + 2, acc \o "\n")
                      ELSE IF d = "t" THEN ParseStringBody(s, i + 2, acc \o "\t")
                      ELSE IF d = "r" THEN ParseStringBody(s, i + 2, acc \o "\r")
                      ELSE ParseFail
             ELSE ParseStringBody(s, i + 1, acc \o c)

\* A number literal starting at i: -? digits (. digits)?
ParseNumber(s, i) ==
    LET a == IF CharAt(s, i) = "-" THEN i + 1 ELSE i
        b == SkipDigits(s, a)
        leadingZero == CharAt(s, a) = "0" /\ b > a + 1
        c == IF CharAt(s, b) = "." THEN SkipDigits(s, b + 1) ELSE b
    IN  IF b = a \/ leadingZero \/ (CharAt(s, b) = "." /\ c = b + 1)
        THEN ParseFail
        ELSE ParseOk([t |-> "num", n |-> Sub(s, i, c - 1)], c)

RECURSIVE ParseValue(_, _)
RECURSIVE ParseElements(_, _, _)
RECURSIVE ParseMembers(_, _, _)

\* The only element of a one-element set (used to name a parse result once).
The(set) == CHOOSE x \in set : TRUE

\* After an array element r: a comma continues, "]" ends the array.
AfterElement(s, r, acc) ==
    IF ~ r.ok THEN ParseFail
    ELSE LET j == SkipJsonWs(s, r.pos)
             c == CharAt(s, j)
         IN  IF c = "," THEN ParseElements(s, j + 1, Append(acc, r.val))
             ELSE IF c = "]"
             THEN ParseOk([t |-> "arr", a |-> Append(acc, r.val)], j + 1)
             ELSE ParseFail

\* The elements of an array after "[" or after a comma; acc holds the
\* elements read so far.
ParseElements(s, i, acc) ==
    The({AfterElement(s, r, acc) : r \in {ParseValue(s, i)}})

\* After a member with key and value r: a comma continues, "}" ends.
AfterMember(s, key, r, acc) ==
    IF ~ r.ok THEN ParseFail
    ELSE LET j   == SkipJsonWs(s, r.pos)
             c   == CharAt(s, j)
             mem == [k |-> key, v |-> r.val]
         IN  IF c = "," THEN ParseMembers(s, j + 1, Append(acc, mem))
             ELSE IF c = "}"
             THEN ParseOk([t |-> "obj", o |-> Append(acc, mem)], j + 1)
             ELSE ParseFail

\* After the key k of a member: a colon, then the value.
AfterKey(s, k, acc) ==
    IF ~ k.ok THEN ParseFail
    ELSE LET c == SkipJsonWs(s, k.pos)
         IN  IF CharAt(s, c) # ":" THEN ParseFail
             ELSE The({AfterMember(s, k.val.s, r, acc) : r \in {ParseValue(s, c + 1)}})

\* The members of an object after "{" or after a comma.
ParseMembers(s, i, acc) ==
    LET j == SkipJsonWs(s, i)
    IN  IF CharAt(s, j) # "\"" THEN ParseFail
        ELSE The({AfterKey(s, k, acc) : k \in {ParseStringBody(s, j + 1, "")}})

\* One JSON value starting at or after position i.
ParseValue(s, i) ==
    LET j == SkipJsonWs(s, i)
        c == CharAt(s, j)
    IN  IF c = "{"
        THEN IF CharAt(s, SkipJsonWs(s, j + 1)) = "}"
             THEN ParseOk([t |-> "obj", o |-> << >>], SkipJsonWs(s, j + 1) + 1)
             ELSE ParseMembers(s, j + 1, << >>)
        ELSE IF c = "["
        THEN IF CharAt(s, SkipJsonWs(s, j + 1)) = "]"
             THEN ParseOk([t |-> "arr", a |-> << >>], SkipJsonWs(s, j + 1) + 1)
             ELSE ParseElements(s, j + 1, << >>)
        ELSE IF c = "\"" THEN ParseStringBody(s, j + 1, "")
        ELSE IF c = "-" \/ c \in Digits THEN ParseNumber(s, j)
        ELSE IF OccursAt(s, "true", j) THEN ParseOk([t |-> "lit", l |-> "true"], j + 4)
        ELSE IF OccursAt(s, "false", j) THEN ParseOk([t |-> "lit", l |-> "false"], j + 5)
        ELSE IF OccursAt(s, "null", j) THEN ParseOk([t |-> "lit", l |-> "null"], j + 4)
        ELSE ParseFail

\* The whole text must be one value.
WholeText(text, r) ==
    IF r.ok /\ SkipJsonWs(text, r.pos) = Len(text) + 1 THEN r ELSE ParseFail

\* JSON.parse(text): [ok |-> TRUE, val |-> value], or ok = FALSE when it throws.
JsonParse(text) == The({WholeText(text, r) : r \in {ParseValue(text, 1)}})

(***************************************************************************)
(* extractJson: the recovery cascade applied to a model response.          *)
(***************************************************************************)

\* Least position >= from where sub occurs in s, 0 when there is none.
IndexOfFrom(s, sub, from) ==
    IF \E i \in from..Len(s) : OccursAt(s, sub, i)
    THEN CHOOSE i \in from..Len(s) :
             OccursAt(s, sub, i) /\ \A j \in from..(i - 1) : ~ OccursAt(s, sub, j)
    ELSE 0

\* Greatest position where sub occurs in s, 0 when there is none.
LastIndexOf(s, sub) ==
    IF \E i \in 1..Len(s) : OccursAt(s, sub, i)
    THEN CHOOSE i \in 1..Len(s) :
             OccursAt(s, sub, i) /\ \A j \in (i + 1)..Len(s) : ~ OccursAt(s, sub, j)
    ELSE 0

\* text.match(/open([\s\S]*?)close/): the leftmost opening that is followed
\* by a closing, and the shortest text between them (capture group 1).
LazyMatch(s, open, close) ==
    LET closes(a) == IndexOfFrom(s, close, a + Len(open))
        group(a) == [found |-> TRUE, cap |-> Sub(s, a + Len(open), closes(a) - 1)]
        leftmost(starts) ==
            IF starts = {} THEN [found |-> FALSE, cap |-> ""]
            ELSE group(CHOOSE a \in starts : \A b \in starts : a <= b)
    IN  leftmost({a \in 1..Len(s) : OccursAt(s, open, a) /\ closes(a) # 0})

\* The three-backquote code fence.  A TLA+ string cannot hold a backquote, so
\* model texts write the backquote character as ~.
fence == "~~~"

\* The value of jsonMatch: the first of the three patterns that matches.
FencedBlock(text) ==
    LET firstOf(m, others) == IF m.found THEN m ELSE others
    IN  firstOf(LazyMatch(text, fence \o "json\n", "\n" \o fence),
                firstOf(LazyMatch(text, fence \o "\n", "\n" \o fence),
                        LazyMatch(text, fence, fence)))

\* s.replace(/,(\s*[}\]])/g, '$1'): drop each comma that is followed, after
\* optional whitespace, by a closing brace or bracket.
RemoveTrailingCommas(s) == MapChars("noComma", s, 1, Len(s))

\* text.match(/"([^"]+)"/g).map(s => s.replace(/"/g, '')): the non-empty
\* quoted substrings, scanning left to right without overlap.
RECURSIVE QuotedStrings(_, _)
QuotedStrings(s, p) ==
    LET closed(q, e) ==
            IF e = 0 THEN << >>
            ELSE IF e = q + 1 THEN QuotedStrings(s, q + 1)
            ELSE << Sub(s, q + 1, e - 1) >> \o QuotedStrings(s, e + 1)
        opened(q) == IF q = 0 THEN << >> ELSE closed(q, IndexOfFrom(s, "\"", q + 1))
    IN  The({opened(q) : q \in {IndexOfFrom(s, "\"", p)}})

Returned(v) == [ok |-> TRUE, val |-> v, err |-> ""]

Thrown(msg) == [ok |-> FALSE, val |-> [t |-> "none"], err |-> msg]

\* try { return JSON.parse(...) } catch { ... }: the parsed value is
\* returned, a parse error leads on to the next tactic.
OrElse(r, otherwise) == IF r.ok THEN Returned(r.val) ELSE otherwise

\* { queries: list }
QueriesObject(list) == [t |-> "obj", o |-> << [k |-> "queries", v |-> list] >>]

\* The last-resort tactic and the final throw.
ExtractQuoted(text) ==
    LET queries(quoted) ==
            IF Len(quoted) > 0
            THEN Returned(QueriesObject(
                     [t |-> "arr",
                      a |-> [k \in 1..Len(quoted) |-> [t |-> "str", s |-> quoted[k]]]]))
            ELSE Thrown("No JSON found in response: " \o Sub(text, 1, 200))
    IN  queries(QuotedStrings(text, 1))

\* The tactics that follow the fenced block: object boundaries, trailing
\* commas, bracketed list (only reached from inside the boundary branch).
ExtractFromBraces(text) ==
    LET list(arrayMatch) ==
            IF arrayMatch.found THEN JsonParse("[" \o arrayMatch.cap \o "]")
            ELSE ParseFail
        asQueries(r5, otherwise) ==
            IF r5.ok THEN Returned(QueriesObject(r5.val)) ELSE otherwise
        bounded(start, end) == start # 0 /\ end # 0 /\ end > start
        tactics(jsonStr, otherwise) ==
            IF jsonStr = "" THEN otherwise
            ELSE OrElse(JsonParse(jsonStr),
                     OrElse(JsonParse(RemoveTrailingCommas(jsonStr)),
                         asQueries(list(LazyMatch(text, "[", "]")), otherwise)))
        between(start, end) ==
            IF bounded(start, end) THEN Sub(text, start, end) ELSE ""
    IN  tactics(between(IndexOfFrom(text, "{", 1), LastIndexOf(text, "}")),
                ExtractQuoted(text))

\* A cascade that starts with the fenced block and the object boundaries
\* and tries the direct parse last.
extractJson_DirectParseLast(text) ==
    LET fenced(jsonMatch) ==
            IF jsonMatch.found /\ jsonMatch.cap # ""
            THEN JsonParse(Trim(jsonMatch.cap))
            ELSE ParseFail
        bounded(jsonStr) ==
            IF jsonStr = "" THEN ParseFail ELSE JsonParse(jsonStr)
    IN  IF text = "" THEN Thrown("Invalid input: not a string")
        ELSE OrElse(fenced(FencedBlock(text)),
                 OrElse(bounded(Sub(text, IndexOfFrom(text, "{", 1),
                                    LastIndexOf(text, "}"))),
                     OrElse(JsonParse(Trim(text)), ExtractQuoted(text))))

\* extractJson(text) of the workflow: [ok, val, err]; ok = FALSE is a throw
\* whose message is err.  A missing response is the empty text.
extractJson(text) ==
    LET fenced(jsonMatch) ==
            IF jsonMatch.found /\ jsonMatch.cap # ""
            THEN JsonParse(Trim(jsonMatch.cap))
            ELSE ParseFail
    IN  IF text = "" THEN Thrown("Invalid input: not a string")
        ELSE OrElse(JsonParse(Trim(text)),
                 OrElse(fenced(FencedBlock(text)), ExtractFromBraces(text)))

(***************************************************************************)
(* Relevance validation and fallback outline (ResearchWorkflowV2.run).     *)
(***************************************************************************)

\* queryLower.match(/\s+(vs|versus)\s+/)
MatchesVs(s) ==
    \E q \in 1..Len(s) :
        /\ IsSpace(CharAt(s, q))
        /\ \E kw \in {"vs", "versus"} :
              /\ OccursAt(s, kw, q + 1)
              /\ IsSpace(CharAt(s, q + 1 + Len(kw)))

\* The condition assigned to isTrueComparison.
IsTrueComparison(queryLower) ==
    \/ MatchesVs(queryLower)
    \/ /\ Includes(queryLower, " or ")
       /\ ~ Includes(queryLower, " with or without ")
       /\ ~ Includes(queryLower, " with or ")

\* The alternation (vs|versus|or) tried in that order at position j of s,
\* ignoring case, followed by whitespace: the keyword matched, or "".
SepKeywordAt(s, j) ==
    LET follows(n) == IsSpace(CharAt(s, j + n))
        keyword(w) == IF OccursAt(w, "vs", 1) /\ follows(2) THEN "vs"
                      ELSE IF OccursAt(w, "versus", 1) /\ follows(6) THEN "versus"
                      ELSE IF OccursAt(w, "or", 1) /\ follows(2) THEN "or"
                      ELSE ""
    IN  keyword(ToLowerCase(Sub(s, j, j + 5)))

\* query.split(/\s+(vs|versus|or)\s+/i): the separator has a capture group,
\* so every matched keyword is spliced into the result between the pieces.
RECURSIVE SplitSepFrom(_, _)
SplitSepFrom(s, p) ==
    LET cut(q, j, kw) ==
            << Sub(s, p, q - 1), Sub(s, j, j + Len(kw) - 1) >>
            \o SplitSepFrom(s, SkipSpaces(s, j + Len(kw)))
        cutAt(q, j) == cut(q, j, SepKeywordAt(s, j))
        split(hits) ==
            IF hits = {} THEN << Sub(s, p, Len(s)) >>
            ELSE The({cutAt(q, SkipSpaces(s, q)) :
                         q \in {h \in hits : \A r \in hits : h <= r}})
    IN  split({q \in p..Len(s) :
                  IsSpace(CharAt(s, q)) /\ SepKeywordAt(s, SkipSpaces(s, q)) # ""})

SplitSep(s) == SplitSepFrom(s, 1)

stopWords ==
    {"what", "is", "are", "the", "a", "an", "of", "for", "about", "how",
     "why", "when", "where", "with", "without", "or"}

\* The value of mainTopics for a query.
MainTopics(query) ==
    LET clean(parts) ==
            SelectSeq([k \in 1..Len(parts) |->
                          ToLowerCase(RemoveQuestionMarks(Trim(parts[k])))],
                      LAMBDA p : Len(p) > 0)
        topics(queryLower) ==
            IF IsTrueComparison(queryLower)
            THEN clean(SplitSep(query))
            ELSE Take(SelectSeq(SplitWs(queryLower),
                                LAMBDA w : Len(w) > 2 /\ w \notin stopWords), 3)
    IN  topics(ToLowerCase(query))

\* mentionsMainTopic for one outline section.
MentionsMainTopic(section, mainTopics) ==
    LET among(combined, topicWords) ==
            \E w \in 1..Len(topicWords) :
                Includes(combined, topicWords[w]) /\ Len(topicWords[w]) > 2
        mentions(combined) ==
            \E t \in 1..Len(mainTopics) : among(combined, SplitWs(mainTopics[t]))
    IN  mentions(ToLowerCase(section.title) \o " " \o ToLowerCase(section.focus))

\* relevantCount after the loop over the sections.
RelevantCount(sections, mainTopics) ==
    Cardinality({k \in 1..Len(sections) : MentionsMainTopic(sections[k], mainTopics)})

\* A threshold that also rejects an outline at exactly 75%.
NeedsFallback_AtThreshold(relevantCount, total) ==
    4 * relevantCount <= 3 * total \/ relevantCount = 0

\* The looser test of relevance: the fallback only when fewer than half of
\* the sections are relevant.
NeedsFallback_HalfRelevant(relevantCount, total) ==
    2 * relevantCount < total \/ relevantCount = 0

\* relevantCount < sections.length * 0.75 || relevantCount === 0
NeedsFallback(relevantCount, total) ==
    4 * relevantCount < 3 * total \/ relevantCount = 0

\* Position (1-based) of the last "?" of s, 0 when there is none.
LastQuestionMark(s) ==
    IF \E k \in 1..Len(s) : CharAt(s, k) = "?"
    THEN CHOOSE k \in 1..Len(s) :
             CharAt(s, k) = "?" /\ \A m \in (k + 1)..Len(s) : CharAt(s, m) # "?"
    ELSE 0

\* Position of the first "?" of s at or after k, Len(s)+1 when there is none.
NextQuestionMark(s, k) ==
    LET marks == {m \in k..Len(s) : CharAt(s, m) = "?"}
    IN  IF marks = {} THEN Len(s) + 1
        ELSE CHOOSE m \in marks : \A r \in marks : m <= r

withOrWithout == "with or without"

\* The branch plannerPrompt takes for a query: isWithOrWithout is tested
\* first, then isTrueComparison, which plannerPrompt computes with
\* includes(' vs ') and includes(' versus ').
PlannerPromptClass(query) ==
    LET isWithOrWithout(queryLower) == Includes(queryLower, " with or without ")
        isTrueComparison(queryLower) ==
            /\ ~ isWithOrWithout(queryLower)
            /\ \/ Includes(queryLower, " vs ")
               \/ Includes(queryLower, " versus ")
               \/ /\ Includes(queryLower, " or ")
                  /\ ~ Includes(queryLower, " with or ")
        classOf(queryLower) ==
            IF isWithOrWithout(queryLower) THEN "dualOption"
            ELSE IF isTrueComparison(queryLower) THEN "comparison"
            ELSE "singleTopic"
    IN  classOf(ToLowerCase(query))

\* The branch the validator and the fallback generator of run take for a
\* query: isTrueComparison is tested first, then ' with or without '.
FallbackClass(query) ==
    LET classOf(queryLower) ==
            IF IsTrueComparison(queryLower) THEN "comparison"
            ELSE IF Includes(queryLower, " with or without ") THEN "dualOption"
            ELSE "singleTopic"
    IN  classOf(ToLowerCase(query))

\* query.replace(/\s+with or without\s+.*\?/i, '').trim()
\* (queries are single-line, so . matches every character).
FallbackTopic(query) ==
    LET hit(low, q) ==
            /\ IsSpace(CharAt(query, q))
            /\ \E j \in {SkipSpaces(query, q)} :
                  /\ OccursAt(low, withOrWithout, j)
                  /\ IsSpace(CharAt(query, j + Len(withOrWithout)))
                  /\ LastQuestionMark(query) > j + Len(withOrWithout)
        without(q) == Trim(Sub(query, 1, q - 1)
                           \o Sub(query, LastQuestionMark(query) + 1, Len(query)))
        replaced(hits) ==
            IF hits = {} THEN Trim(query)
            ELSE without(CHOOSE q \in hits : \A r \in hits : q <= r)
        hitsIn(low) == {q \in 1..Len(query) : hit(low, q)}
    IN  replaced(hitsIn(ToLowerCase(query)))

\* query.match(/with or without\s+([^?]+)/i)?.[1]?.trim() || ''
FallbackOption(query) ==
    LET n == Len(withOrWithout)
        full(low, j) == /\ OccursAt(low, withOrWithout, j)
                        /\ IsSpace(CharAt(query, j + n))
                        /\ \E k \in {SkipSpaces(query, j + n)} :
                              k <= Len(query) /\ CharAt(query, k) # "?"
        back(low, j) == /\ OccursAt(low, withOrWithout, j)
                        /\ SkipSpaces(query, j + n) - (j + n) >= 2
        group(k) == Trim(Sub(query, k, NextQuestionMark(query, k) - 1))
        captured(low, j) ==
            IF full(low, j) THEN group(SkipSpaces(query, j + n)) ELSE ""
        matched(low, hits) ==
            IF hits = {} THEN ""
            ELSE captured(low, CHOOSE j \in hits : \A r \in hits : j <= r)
        option(low) ==
            matched(low, {j \in 1..Len(query) : full(low, j) \/ back(low, j)})
    IN  option(ToLowerCase(query))

\* A fallback generator without the single-topic template: every query
\* that is not a comparison gets the dual-option outline.
FallbackSections_NoSingleTopic(query) ==
    LET optional(topic, option) ==
            << [title |-> "Introduction: " \o topic,
                focus |-> "Overview of " \o topic],
               [title |-> topic \o " with " \o option,
                focus |-> "Benefits of " \o topic \o " with " \o option],
               [title |-> topic \o " without " \o option,
                focus |-> "Benefits of " \o topic \o " without " \o option],
               [title |-> "Comparison and Conclusion",
                focus |-> "Which option is better for different situations"] >>
    IN  optional(FallbackTopic(query), FallbackOption(query))

\* The fallback outline assigned to sections when validation fails.
FallbackSections(query) ==
    LET comparison(p0, p1) ==
            << [title |-> "Introduction: " \o p0 \o " vs " \o p1,
                focus |-> "Overview comparing " \o p0 \o " and " \o p1],
               [title |-> "About " \o p0,
                focus |-> "Characteristics, features, and benefits of " \o p0],
               [title |-> "About " \o p1,
                focus |-> "Characteristics, features, and benefits of " \o p1],
               [title |-> "Comparison and Conclusion",
                focus |-> "Which is better for different situations"] >>
        cleaned(pieces) ==
            [k \in 1..Len(pieces) |-> RemoveQuestionMarks(Trim(pieces[k]))]
        ofParts(parts) == comparison(parts[1], parts[2])
        optional(topic, option) ==
            << [title |-> "Introduction: " \o topic,
                focus |-> "Overview of " \o topic
                          \o " and the question of using it with or without "
                          \o option],
               [title |-> topic \o " with " \o option,
                focus |-> "Benefits, characteristics, and uses of " \o topic
                          \o " with " \o option],
               [title |-> topic \o " without " \o option,
                focus |-> "Benefits, characteristics, and uses of " \o topic
                          \o " without " \o option],
               [title |-> "Comparison and Conclusion",
                focus |-> "Which option is better for different situations"] >>
        single(topic) ==
            << [title |-> "Introduction to " \o topic,
                focus |-> "Overview and key information about " \o topic],
               [title |-> "Key Aspects of " \o topic,
                focus |-> "Important details and characteristics"],
               [title |-> "Applications and Examples",
                focus |-> "Real-world examples and use cases"],
               [title |-> "Conclusion",
                focus |-> "Summary and final thoughts"] >>
        fallback(queryLower) ==
            IF IsTrueComparison(queryLower)
            THEN ofParts(cleaned(SplitSep(query)))
            ELSE IF Includes(queryLower, " with or without ")
            THEN optional(FallbackTopic(query), FallbackOption(query))
            ELSE single(Trim(RemoveQuestionMarks(query)))
    IN  fallback(ToLowerCase(query))

(***************************************************************************)
(* From the checkpointed plan to the planned outline.                      *)
(***************************************************************************)

\* obj[key] for a parsed JSON object: the last member with that key wins;
\* found = FALSE is undefined.
GetMember(obj, key) ==
    LET idx == {k \in 1..Len(obj.o) : obj.o[k].k = key}
    IN  IF obj.t # "obj" \/ idx = {}
        THEN [found |-> FALSE, v |-> [t |-> "none"]]
        ELSE [found |-> TRUE,
              v |-> obj.o[CHOOSE k \in idx : \A m \in idx : m <= k].v]

\* A number literal that denotes zero.
IsZeroLiteral(n) == \A k \in 1..Len(n) : CharAt(n, k) \in {"0", "-", "."}

\* JavaScript truthiness of a parsed value.
Truthy(v) ==
    CASE v.t = "str" -> v.s # ""
      [] v.t = "num" -> ~ IsZeroLiteral(v.n)
      [] v.t = "lit" -> v.l = "true"
      [] OTHER -> TRUE

\* The text of (x || '') with its toLowerCase still to be called: a string
\* is itself, a falsy value is '', any other value has no toLowerCase.
TextOrEmpty(m) ==
    IF ~ m.found \/ ~ Truthy(m.v) THEN [ok |-> TRUE, s |-> ""]
    ELSE IF m.v.t = "str" THEN [ok |-> TRUE, s |-> m.v.s]
    ELSE [ok |-> FALSE, s |-> ""]

\* One element of plan.sections as the loop sees it.  hasTitle records that
\* section.title is a string (only then does it have toLowerCase).
SectionOf(v) ==
    LET read(title, focus) ==
            [title    |-> TextOrEmpty(title).s,
             focus    |-> TextOrEmpty(focus).s,
             hasTitle |-> title.found /\ title.v.t = "str"]
    IN  read(GetMember(v, "title"), GetMember(v, "focus"))

\* Lines 173-216 up to the relevance loop: kind "ok" with the planned
\* sections, "empty" for the "Planner generated no sections" error, and
\* "typeError" when reading the plan throws a TypeError.
PlannedOutline(plan) ==
    LET typeError == [kind |-> "typeError", sections |-> << >>]
        empty == [kind |-> "empty", sections |-> << >>]
        nulls(elems) ==
            \E k \in 1..Len(elems) : elems[k].t = "lit" /\ elems[k].l = "null"
        bad(elems) ==
            \E k \in 1..Len(elems) :
                \/ ~ TextOrEmpty(GetMember(elems[k], "title")).ok
                \/ ~ TextOrEmpty(GetMember(elems[k], "focus")).ok
        ofElements(elems) ==
            IF nulls(elems) THEN typeError
            ELSE IF Len(elems) = 0 THEN empty
            ELSE IF bad(elems) THEN typeError
            ELSE [kind |-> "ok",
                  sections |-> [k \in 1..Len(elems) |-> SectionOf(elems[k])]]
        ofMember(m) ==
            IF ~ m.found \/ ~ Truthy(m.v) THEN empty
            ELSE IF m.v.t # "arr" THEN typeError
            ELSE ofElements(m.v.a)
    IN  IF plan.t = "lit" /\ plan.l = "null" THEN typeError
        ELSE ofMember(GetMember(plan, "sections"))

\* The fallback outline with the shape of loop sections.
FallbackOutline(query) ==
    LET shaped(fb) ==
            [k \in 1..Len(fb) |->
                [title |-> fb[k].title, focus |-> fb[k].focus, hasTitle |-> TRUE]]
    IN  shaped(FallbackSections(query))

\* The outline assigned to sections before the section loop.
OutlineFor(query, planned) ==
    IF NeedsFallback(RelevantCount(planned, MainTopics(query)), Len(planned))
    THEN FallbackOutline(query)
    ELSE planned

(***************************************************************************)
(* The research-section step body.                                         *)
(* lookup is what the knowledge source did: kind "throws" (a fetch or a    *)
(* body read raised), "notOk" (search response not OK), "noHits",          *)
(* "summary" (summary fetched) or "snippet" (summary not OK, search hit    *)
(* used); title, extract and url are the source then pushed.               *)
(* A synthesis call w is [throws, response].                               *)
(***************************************************************************)

\* The sources array after the fetch loop over the single query.
SourcesOf(lookup) ==
    IF lookup.kind \in {"summary", "snippet"}
    THEN << [title |-> lookup.title, extract |-> lookup.extract, url |-> lookup.url] >>
    ELSE << >>

\* Array.prototype.join
RECURSIVE Join(_, _)
Join(seq, sep) ==
    IF Len(seq) = 0 THEN ""
    ELSE IF Len(seq) = 1 THEN seq[1]
    ELSE seq[1] \o sep \o Join(Tail(seq), sep)

\* contextToUse
ContextToUse(section, sources) ==
    LET context == Join([k \in 1..Len(sources) |->
                            "Title: " \o sources[k].title \o "\nSummary: "
                            \o (IF sources[k].extract # "" THEN sources[k].extract
                                ELSE "No summary available")], "\n\n")
    IN  IF Len(Trim(context)) > 0 THEN context
        ELSE "Section Focus: "
             \o (IF section.focus # "" THEN section.focus ELSE section.title)
             \o "\n\nNote: No external sources were found. Please write about the section title using general knowledge."

\* String(e) for the errors the environment raises.
AiError == "Error: AI unavailable"

TitleTypeError == "TypeError: Cannot read properties of undefined (reading 'toLowerCase')"

\* An on-topic check without the test titleWords.length > 0: a title that
\* has no word of more than 3 characters always counts as missed.
WriteSection_RetriesWithoutTitleWords(section, w1, w2) ==
    LET failed(msg) == "## " \o section.title \o "\n\nError generating content: " \o msg
        offTopic(first, titleWords) ==
            ~ \E k \in 1..Len(titleWords) : Includes(first, titleWords[k])
        checked(first, titleWords) ==
            IF offTopic(ToLowerCase(first), titleWords)
            THEN IF w2.throws THEN [content |-> failed(AiError), calls |-> 2]
                 ELSE [content |-> IF w2.response # "" THEN w2.response ELSE first,
                       calls |-> 2]
            ELSE [content |-> first, calls |-> 1]
        written(first) ==
            checked(first, SelectSeq(SplitWs(ToLowerCase(section.title)),
                                     LAMBDA w : Len(w) > 3))
    IN  IF w1.throws THEN [content |-> failed(AiError), calls |-> 1]
        ELSE IF ~ section.hasTitle
        THEN [content |-> failed(TitleTypeError), calls |-> 1]
        ELSE written(IF w1.response # "" THEN w1.response
                     ELSE "## " \o section.title \o "\n\nContent generation failed.")

\* The "write section" block: content is the final sectionContent and
\* calls the number of synthesis invocations made.
WriteSection(section, w1, w2) ==
    LET failed(msg) == "## " \o section.title \o "\n\nError generating content: " \o msg
        offTopic(first, titleWords) ==
            /\ Len(titleWords) > 0
            /\ ~ \E k \in 1..Len(titleWords) : Includes(first, titleWords[k])
        checked(first, titleWords) ==
            IF offTopic(ToLowerCase(first), titleWords)
            THEN IF w2.throws THEN [content |-> failed(AiError), calls |-> 2]
                 ELSE [content |-> IF w2.response # "" THEN w2.response ELSE first,
                       calls |-> 2]
            ELSE [content |-> first, calls |-> 1]
        written(first) ==
            checked(first, SelectSeq(SplitWs(ToLowerCase(section.title)),
                                     LAMBDA w : Len(w) > 3))
    IN  IF w1.throws THEN [content |-> failed(AiError), calls |-> 1]
        ELSE IF ~ section.hasTitle
        THEN [content |-> failed(TitleTypeError), calls |-> 1]
        ELSE written(IF w1.response # "" THEN w1.response
                     ELSE "## " \o section.title \o "\n\nContent generation failed.")

\* A step body without the inner catch: a failed synthesis call leaves it as
\* an exception.
SectionBody_SynthesisErrorEscapes(section, lookup, w1, w2) ==
    LET returned(sources, written) ==
            [raised |-> w1.throws,
             calls  |-> written.calls,
             result |-> [title   |-> section.title,
                         content |-> written.content,
                         sources |-> [k \in 1..Len(sources) |->
                                        [title |-> sources[k].title,
                                         url |-> sources[k].url]]]]
    IN  returned(SourcesOf(lookup), WriteSection(section, w1, w2))

\* A step body whose lookup is not guarded: an exception of fetch leaves
\* the body.
SectionBody_LookupErrorEscapes(section, lookup, w1, w2) ==
    LET returned(sources, written) ==
            [raised |-> lookup.kind = "throws",
             calls  |-> written.calls,
             result |-> [title   |-> section.title,
                         content |-> written.content,
                         sources |-> [k \in 1..Len(sources) |->
                                        [title |-> sources[k].title,
                                         url |-> sources[k].url]]]]
    IN  returned(SourcesOf(lookup), WriteSection(section, w1, w2))

\* A step body whose inner catch returns like the outer one: a failed
\* synthesis call leaves the result without sources.
SectionBody_ErrorDropsSources(section, lookup, w1, w2) ==
    LET returned(sources, written) ==
            [raised |-> FALSE,
             calls  |-> written.calls,
             result |-> [title   |-> section.title,
                         content |-> written.content,
                         sources |-> IF w1.throws THEN << >>
                                     ELSE [k \in 1..Len(sources) |->
                                              [title |-> sources[k].title,
                                               url |-> sources[k].url]]]]
    IN  returned(SourcesOf(lookup), WriteSection(section, w1, w2))

\* The value the step body returns; raised = TRUE would be an exception
\* leaving the body (both catch blocks return, so it never is).
SectionBody(section, lookup, w1, w2) ==
    LET returned(sources, written) ==
            [raised |-> FALSE,
             calls  |-> written.calls,
             result |-> [title   |-> section.title,
                         content |-> written.content,
                         sources |-> [k \in 1..Len(sources) |->
                                        [title |-> sources[k].title,
                                         url |-> sources[k].url]]]]
    IN  returned(SourcesOf(lookup), WriteSection(section, w1, w2))

(***************************************************************************)
(* The compile-report step body.                                           *)
(***************************************************************************)

\* A loop that also skips the results whose content reports a failure, and
\* with them their sources.
KeptResults_SkipsFailedSections(sectionResults) ==
    SelectSeq(sectionResults,
              LAMBDA r : r.content # "" /\ ~ Includes(r.content, "Error generating content"))

\* The results the loop keeps: if (section && section.content).
KeptResults(sectionResults) == SelectSeq(sectionResults, LAMBDA r : r.content # "")

\* fullContent
FullContent(query, sectionResults) ==
    "# " \o query \o "\n\n"
    \o Join([k \in 1..Len(KeptResults(sectionResults)) |->
                 KeptResults(sectionResults)[k].content \o "\n\n"], "")

\* allSources
RECURSIVE AllSources(_)
AllSources(results) ==
    IF Len(results) = 0 THEN << >>
    ELSE Head(results).sources \o AllSources(Tail(results))

\* A deduplication that keeps the first entry seen for a url.
UniqueSources_FirstEntry(all) ==
    LET firsts == SelectSeq([k \in 1..Len(all) |-> k],
                            LAMBDA k : \A j \in 1..(k - 1) : all[j].url # all[k].url)
    IN  [n \in 1..Len(firsts) |-> all[firsts[n]]]

\* A source list that is only concatenated.
UniqueSources_Concatenated(all) == all

\* Array.from(new Map(all.map(s => [s.url, s])).values()): a Map keeps a key
\* at the position of its first insertion and the value of its last.
UniqueSources(all) ==
    LET firsts == SelectSeq([k \in 1..Len(all) |-> k],
                            LAMBDA k : \A j \in 1..(k - 1) : all[j].url # all[k].url)
        last(u) == CHOOSE k \in 1..Len(all) :
                       all[k].url = u /\ \A j \in (k + 1)..Len(all) : all[j].url # u
    IN  [n \in 1..Len(firsts) |-> all[last(all[firsts[n]].url)]]

\* The report artifact put by compile-report.
ReportArtifact(query, sectionResults) ==
    [query   |-> query,
     answer  |-> FullContent(query, sectionResults),
     sources |-> UniqueSources(AllSources(KeptResults(sectionResults)))]

\* The artifact put by the catch block of compile-report.
CompileErrorArtifact(query, e) ==
    [query   |-> query,
     answer  |-> "# " \o query \o "\n\nError compiling report: " \o e,
     sources |-> << >>]

\* The artifact put by the top-level catch block of run.
WorkflowErrorArtifact(query, e) ==
    [query   |-> query,
     answer  |-> "# " \o query \o "\n\nWorkflow failed with error: " \o e,
     sources |-> << >>]

(***************************************************************************)
(* Bounds and the inputs the environment supplies.                         *)
(***************************************************************************)

\* Attempts the workflow engine gives one step before its error reaches run.
MaxStepAttempts == 2

\* Crashes (each followed by a re-drive of run) considered per run.
MaxCrashes == 1

SessionIds == {"s1", "s2"}

Queries == {"Tea or coffee?", "Quantum computing"}

\* Planner responses: a fenced three-section outline about tea and coffee
\* (with a trailing comma), a one-section outline that mentions both
\* queries' topics, an empty outline, and prose from which nothing can be
\* recovered.
PlanThree ==
    "Here is the plan:\n~~~json\n{\"sections\":[{\"title\":\"Tea\",\"focus\":\"leaves\"},{\"title\":\"Coffee\",\"focus\":\"beans\"},{\"title\":\"Verdict\",\"focus\":\"tea against coffee\"},]}\n~~~"

PlanOne == "{\"sections\":[{\"title\":\"Quantum computing basics\",\"focus\":\"tea and coffee\"}]}"

PlanEmpty == "{\"sections\":[]}"

PlanProse == "I cannot help with that"

PlanCalls ==
    {[throws |-> FALSE, response |-> r] : r \in {PlanThree, PlanOne, PlanEmpty, PlanProse}}
    \cup {[throws |-> TRUE, response |-> ""]}

\* What one execution of a research-section body can meet: the lookup, the
\* first synthesis call and the on-topic retry.  The writer is asked to
\* start with the section heading, so its answers depend on the section.
\* The page found is the one named by the section title or, for a section
\* whose focus mentions tea, the tea plant's page under the url of "Tea".
WikiUrl == "https://en.wikipedia.org/wiki/"

TeaUrl == WikiUrl \o "Tea"

NoLookup(kind) == [kind |-> kind, title |-> "", extract |-> "", url |-> ""]

SectionRuns(section) ==
    { [lookup |-> NoLookup("throws"),
       w1 |-> [throws |-> TRUE, response |-> ""],
       w2 |-> [throws |-> TRUE, response |-> ""]],
      [lookup |-> [kind |-> "summary", title |-> section.title,
                   extract |-> "A summary", url |-> WikiUrl \o section.title],
       w1 |-> [throws |-> FALSE,
               response |-> "## " \o section.title \o "\n\nWritten from the context."],
       w2 |-> [throws |-> FALSE, response |-> ""]] }
    \cup
    IF Includes(section.focus, "tea")
    THEN { [lookup |-> [kind |-> "snippet", title |-> "Tea (plant)",
                        extract |-> "", url |-> TeaUrl],
            w1 |-> [throws |-> FALSE, response |-> "Bananas are yellow."],
            w2 |-> [throws |-> FALSE,
                    response |-> "## " \o section.title \o "\n\nRewritten."]] }
    ELSE {}

\* Every combination of outcomes one execution of a research-section body
\* can meet: the lookup throws, answers not OK, finds nothing, or yields a
\* summary or a snippet; each synthesis call throws, answers nothing, or
\* answers on or off the section's topic (the retry too).
AllSectionRuns(section) ==
    [lookup : {NoLookup(kind) : kind \in {"throws", "notOk", "noHits"}}
              \cup {[kind |-> kind, title |-> section.title,
                     extract |-> "A summary", url |-> WikiUrl \o section.title] :
                       kind \in {"summary", "snippet"}},
     w1 : {[throws |-> TRUE, response |-> ""],
           [throws |-> FALSE, response |-> ""],
           [throws |-> FALSE, response |-> "## " \o section.title \o "\n\nText."],
           [throws |-> FALSE, response |-> "Bananas are yellow."]},
     w2 : {[throws |-> TRUE, response |-> ""],
           [throws |-> FALSE, response |-> ""],
           [throws |-> FALSE, response |-> "## " \o section.title \o "\n\nRewritten."],
           [throws |-> FALSE, response |-> "Apples are red."]}]

KvError == "Error: KV put failed"

(***************************************************************************)
(* State.                                                                  *)
(***************************************************************************)

VARIABLES
    status,          \* the workflow instance: "none", "running", "errored", "complete"
    payload,         \* event.payload: [query, sessionId]
    checkpoint,      \* the engine's durable step results, by step name
    kv,              \* RESEARCH_CACHE: stored artifacts by key
    pc,              \* position of run
    plan,            \* const plan
    sections,        \* let sections
    i,               \* loop index of the section loop
    sectionResults,  \* const sectionResults
    e,               \* String(e) of the exception being handled, "" if none
    attempts,        \* failed attempts of the step in progress
    issued,          \* session ids generated by crypto.randomUUID so far
    response,        \* the last response of POST /api/research
    lastPoll,        \* the last response of GET /api/status/<id>, by id (a
                     \* poll before anything is stored answers "Not ready")
    recorded,        \* history: the steps whose result has been checkpointed
    replayed,        \* history: the steps this drive answered from their checkpoint
    crashLog,        \* history: the number of recorded steps at each crash
    puts,            \* history: puts this drive issued to the session key, by kind
    handlerPut,      \* history: the top-level catch's put: "none", "ok", "failed"
    failure,         \* history: the exception run was failed with
    compilePutThrew, \* history: a report put of this drive has thrown
    planResponse,    \* history: the text the planner last answered with
    bodyLog,         \* history: the last execution of a research-section body:
                     \* its section, what its calls met, the context given to
                     \* synthesis and the number of synthesis calls
    parked           \* the state of the runs other than the one followed: status to
                     \* planResponse of each, by session id

vars == << status, payload, checkpoint, kv, pc, plan, sections, i,
           sectionResults, e, attempts, issued, response, lastPoll, recorded,
           replayed, crashLog, puts, handlerPut, failure, compilePutThrew,
           planResponse, bodyLog, parked >>

durable == << status, payload, checkpoint, kv, issued, response, lastPoll >>

NoPlan == [t |-> "none"]

EmptyMap == [x \in {} |-> x]

NoPayload == [query |-> "", sessionId |-> ""]

\* The 202 response of the status endpoint.
NotReady == [status |-> 202, body |-> [query |-> "", answer |-> "Not ready", sources |-> << >>]]

NoResponse == [status |-> 0, sessionId |-> "", error |-> ""]

\* No research-section body has been executed yet.
NoBody ==
    [section |-> 0,
     run |-> [lookup |-> NoLookup("none"),
              w1 |-> [throws |-> FALSE, response |-> ""],
              w2 |-> [throws |-> FALSE, response |-> ""]],
     context |-> "", calls |-> 0]

Init ==
    /\ status = "none"
    /\ payload = NoPayload
    /\ checkpoint = EmptyMap
    /\ kv = EmptyMap
    /\ pc = "idle"
    /\ plan = NoPlan
    /\ sections = << >>
    /\ i = 0
    /\ sectionResults = << >>
    /\ e = ""
    /\ attempts = 0
    /\ issued = {}
    /\ response = NoResponse
    /\ lastPoll = [id \in SessionIds |-> NotReady]
    /\ recorded = {}
    /\ replayed = {}
    /\ crashLog = << >>
    /\ puts = [report |-> 0, error |-> 0]
    /\ handlerPut = "none"
    /\ failure = ""
    /\ compilePutThrew = FALSE
    /\ planResponse = ""
    /\ bodyLog = NoBody
    /\ parked = EmptyMap

query == payload.query

sessionId == payload.sessionId

(***************************************************************************)
(* The workflow engine: step.do and the durable checkpoints.               *)
(***************************************************************************)

PlanStepName == << "plan-research", 0 >>

\* A step name that depends on the drive, so a re-driven run does not find
\* the checkpoints of the drive before.
StepName_PerDrive(k) == << "research-section", k + Len(crashLog) >>

\* stepName = `research-section-${i + 1}`
StepName(k) == << "research-section", k >>

CompileStepName == << "compile-report", 0 >>

Cached(name) == name \in DOMAIN checkpoint

\* The engine records the value a step body returned.
Record(name, step, value) ==
    /\ checkpoint' = (name :> value) @@ checkpoint
    /\ recorded' = recorded \cup {step}

\* A put under one key shared by all runs.
Put_SharedKey(artifact) == kv' = ("latest" :> artifact) @@ kv

\* A put under the query instead of the session id.
Put_KeyedByQuery(artifact) == kv' = (query :> artifact) @@ kv

\* RESEARCH_CACHE.put(sessionId, JSON.stringify(artifact)) that succeeds.
Put(artifact) == kv' = (sessionId :> artifact) @@ kv

\* A step body threw err: the engine runs the body again while attempts
\* remain (pc returns to the step's entry), then lets err reach run.
StepFailed(entry, err) ==
    IF attempts + 1 < MaxStepAttempts
    THEN /\ attempts' = attempts + 1
         /\ pc' = entry
         /\ e' = e
    ELSE /\ attempts' = 0
         /\ pc' = "catch"
         /\ e' = err

history == << recorded, replayed, crashLog, puts, handlerPut, failure,
             compilePutThrew, planResponse, bodyLog >>

(***************************************************************************)
(* POST /api/research and GET /api/status/<id>.                            *)
(***************************************************************************)

\* crypto.randomUUID(): an id never issued before (the unissued ids are
\* interchangeable, so they are handed out in a fixed order).
FreshId == IF "s1" \notin issued THEN "s1" ELSE "s2"

\* A submit handler whose catch block does not return: the session id is
\* answered although no run was created.
Submit_AnswersIdAfterFailure(q, id, created) ==
    /\ status = "none"
    /\ Cardinality(issued) <= Cardinality(DOMAIN parked)
    /\ id = FreshId /\ id \notin issued
    /\ issued' = issued \cup {id}
    /\ response' = [status |-> 200, sessionId |-> id, error |-> ""]
    /\ IF created
       THEN /\ status' = "running"
            /\ payload' = [query |-> q, sessionId |-> id]
            /\ pc' = "plan"
       ELSE UNCHANGED << status, payload, pc >>
    /\ UNCHANGED << checkpoint, kv, plan, sections, i, sectionResults, e,
                    attempts, lastPoll, parked >>
    /\ UNCHANGED history

\* fetch, /api/research: a fresh session id; workflow.create starts the run
\* or throws.  A submission is followed when no run is (every run
\* submitted before is parked).
Submit(q, id, created) ==
    /\ status = "none"
    /\ Cardinality(issued) <= Cardinality(DOMAIN parked)
    /\ id = FreshId /\ id \notin issued
    /\ issued' = issued \cup {id}
    /\ IF created
       THEN /\ status' = "running"
            /\ payload' = [query |-> q, sessionId |-> id]
            /\ pc' = "plan"
            /\ response' = [status |-> 200, sessionId |-> id, error |-> ""]
       ELSE /\ response' = [status |-> 500, sessionId |-> "",
                            error |-> "Error: workflow create failed"]
            /\ UNCHANGED << status, payload, pc >>
    /\ UNCHANGED << checkpoint, kv, plan, sections, i, sectionResults, e,
                    attempts, lastPoll, parked >>
    /\ UNCHANGED history

\* fetch, /api/status/<id>
Poll(id) ==
    /\ lastPoll' = [lastPoll EXCEPT ![id] =
                        IF id \in DOMAIN kv
                        THEN [status |-> 200, body |-> kv[id]]
                        ELSE NotReady]
    /\ UNCHANGED << status, payload, checkpoint, kv, pc, plan, sections, i,
                    sectionResults, e, attempts, issued, response, parked >>
    /\ UNCHANGED history

(***************************************************************************)
(* ResearchWorkflowV2.run.                                                 *)
(***************************************************************************)

\* step.do("plan-research", ...) is reached: a recorded result is returned
\* without running the body, otherwise the body starts.
PlanStep ==
    /\ status = "running" /\ pc = "plan"
    /\ IF Cached(PlanStepName)
       THEN /\ plan' = checkpoint[PlanStepName]
            /\ pc' = "validate"
            /\ replayed' = replayed \cup {<< "plan", 0 >>}
       ELSE /\ pc' = "planBody"
            /\ UNCHANGED << plan, replayed >>
    /\ UNCHANGED << status, payload, checkpoint, kv, sections, i,
                    sectionResults, e, attempts, issued, response, lastPoll, parked,
                    recorded, crashLog, puts, handlerPut, failure, bodyLog, planResponse,
                    compilePutThrew >>

\* A plan-research body without its try/catch: the error of the planner
\* call or of extractJson leaves the step as it is.
PlanBody_ErrorNotWrapped(call) ==
    /\ status = "running" /\ pc = "planBody"
    /\ LET cause(r) == IF call.throws THEN AiError ELSE "Error: " \o r.err
           settle(r) ==
               IF r.ok
               THEN /\ Record(PlanStepName, << "plan", 0 >>, r.val)
                    /\ plan' = r.val
                    /\ pc' = "validate"
                    /\ attempts' = 0
                    /\ e' = e
               ELSE /\ StepFailed("plan", cause(r))
                    /\ UNCHANGED << checkpoint, recorded, plan >>
       IN  settle(IF call.throws THEN Thrown(AiError) ELSE extractJson(call.response))
    /\ planResponse' = IF call.throws THEN planResponse ELSE call.response
    /\ UNCHANGED << status, payload, kv, sections, i, sectionResults, issued,
                    response, lastPoll, parked, replayed, crashLog, puts, handlerPut,
                    failure, bodyLog, compilePutThrew >>

\* The body of plan-research: the planner call, then extractJson; any error
\* is rethrown as "Planning failed".
PlanBody(call) ==
    /\ status = "running" /\ pc = "planBody"
    /\ LET cause(r) == IF call.throws THEN AiError ELSE "Error: " \o r.err
           settle(r) ==
               IF r.ok
               THEN /\ Record(PlanStepName, << "plan", 0 >>, r.val)
                    /\ plan' = r.val
                    /\ pc' = "validate"
                    /\ attempts' = 0
                    /\ e' = e
               ELSE /\ StepFailed("plan", "Error: Planning failed: " \o cause(r))
                    /\ UNCHANGED << checkpoint, recorded, plan >>
       IN  settle(IF call.throws THEN Thrown(AiError) ELSE extractJson(call.response))
    /\ planResponse' = IF call.throws THEN planResponse ELSE call.response
    /\ UNCHANGED << status, payload, kv, sections, i, sectionResults, issued,
                    response, lastPoll, parked, replayed, crashLog, puts, handlerPut,
                    failure, bodyLog, compilePutThrew >>

\* A validator without the empty-plan check: an empty outline goes on to
\* the relevance test, where relevantCount === 0 selects the fallback.
Validate_EmptyPlanGetsFallback ==
    /\ status = "running" /\ pc = "validate"
    /\ LET check(outline) ==
               IF outline.kind = "typeError"
               THEN /\ e' = "TypeError: cannot read the plan"
                    /\ pc' = "catch"
                    /\ UNCHANGED << sections, i, sectionResults >>
               ELSE /\ sections' = OutlineFor(query, outline.sections)
                    /\ i' = 0
                    /\ sectionResults' = << >>
                    /\ pc' = "research"
                    /\ e' = e
       IN  check(PlannedOutline(plan))
    /\ UNCHANGED << status, payload, checkpoint, kv, plan, attempts, issued,
                    response, lastPoll, parked >>
    /\ UNCHANGED history

\* A validator whose outline depends on the drive: a re-driven run gets the
\* sections in the opposite order.
Validate_OutlineDependsOnDrive ==
    /\ status = "running" /\ pc = "validate"
    /\ LET turned(o) ==
               IF crashLog = << >> THEN o
               ELSE [k \in 1..Len(o) |-> o[Len(o) + 1 - k]]
           check(outline) ==
               CASE outline.kind = "typeError" ->
                      /\ e' = "TypeError: cannot read the plan"
                      /\ pc' = "catch"
                      /\ UNCHANGED << sections, i, sectionResults >>
                 [] outline.kind = "empty" ->
                      /\ e' = "Error: Planner generated no sections"
                      /\ pc' = "catch"
                      /\ UNCHANGED << sections, i, sectionResults >>
                 [] OTHER ->
                      /\ sections' = turned(OutlineFor(query, outline.sections))
                      /\ i' = 0
                      /\ sectionResults' = << >>
                      /\ pc' = "research"
                      /\ e' = e
       IN  check(PlannedOutline(plan))
    /\ UNCHANGED << status, payload, checkpoint, kv, plan, attempts, issued,
                    response, lastPoll, parked >>
    /\ UNCHANGED history

\* Lines 173-250, outside every step: read the plan, reject an empty one,
\* check relevance and substitute the fallback outline.
Validate ==
    /\ status = "running" /\ pc = "validate"
    /\ LET check(outline) ==
               CASE outline.kind = "typeError" ->
                      /\ e' = "TypeError: cannot read the plan"
                      /\ pc' = "catch"
                      /\ UNCHANGED << sections, i, sectionResults >>
                 [] outline.kind = "empty" ->
                      /\ e' = "Error: Planner generated no sections"
                      /\ pc' = "catch"
                      /\ UNCHANGED << sections, i, sectionResults >>
                 [] OTHER ->
                      /\ sections' = OutlineFor(query, outline.sections)
                      /\ i' = 0
                      /\ sectionResults' = << >>
                      /\ pc' = "research"
                      /\ e' = e
       IN  check(PlannedOutline(plan))
    /\ UNCHANGED << status, payload, checkpoint, kv, plan, attempts, issued,
                    response, lastPoll, parked >>
    /\ UNCHANGED history

\* A loop that pushes the result only inside the body, so a recorded result
\* is skipped by the drive that replays it.
ResearchStep_ReplaySkipsResult ==
    /\ status = "running" /\ pc = "research"
    /\ IF i >= Len(sections)
       THEN /\ pc' = "compile"
            /\ UNCHANGED << i, sectionResults, replayed >>
       ELSE IF Cached(StepName(i + 1))
       THEN /\ i' = i + 1
            /\ pc' = "research"
            /\ replayed' = replayed \cup {<< "section", i + 1 >>}
            /\ UNCHANGED sectionResults
       ELSE /\ pc' = "researchBody"
            /\ UNCHANGED << i, sectionResults, replayed >>
    /\ UNCHANGED << status, payload, checkpoint, kv, plan, sections, e,
                    attempts, issued, response, lastPoll, parked, recorded, crashLog,
                    puts, handlerPut, failure, bodyLog, planResponse, compilePutThrew >>

\* A loop bound that is one short: the last section is never researched and
\* compile-report starts without its result.
ResearchStep_LeavesLoopEarly ==
    /\ status = "running" /\ pc = "research"
    /\ IF i + 1 >= Len(sections)
       THEN /\ pc' = "compile"
            /\ UNCHANGED << i, sectionResults, replayed >>
       ELSE IF Cached(StepName(i + 1))
       THEN /\ sectionResults' = Append(sectionResults, checkpoint[StepName(i + 1)])
            /\ i' = i + 1
            /\ pc' = "research"
            /\ replayed' = replayed \cup {<< "section", i + 1 >>}
       ELSE /\ pc' = "researchBody"
            /\ UNCHANGED << i, sectionResults, replayed >>
    /\ UNCHANGED << status, payload, checkpoint, kv, plan, sections, e,
                    attempts, issued, response, lastPoll, parked, recorded, crashLog,
                    puts, handlerPut, failure, bodyLog, planResponse, compilePutThrew >>

\* The head of the section loop and step.do(stepName, ...): leave the loop,
\* take the recorded result, or start the body.
ResearchStep ==
    /\ status = "running" /\ pc = "research"
    /\ IF i >= Len(sections)
       THEN /\ pc' = "compile"
            /\ UNCHANGED << i, sectionResults, replayed >>
       ELSE IF Cached(StepName(i + 1))
       THEN /\ sectionResults' = Append(sectionResults, checkpoint[StepName(i + 1)])
            /\ i' = i + 1
            /\ pc' = "research"
            /\ replayed' = replayed \cup {<< "section", i + 1 >>}
       ELSE /\ pc' = "researchBody"
            /\ UNCHANGED << i, sectionResults, replayed >>
    /\ UNCHANGED << status, payload, checkpoint, kv, plan, sections, e,
                    attempts, issued, response, lastPoll, parked, recorded, crashLog,
                    puts, handlerPut, failure, bodyLog, planResponse, compilePutThrew >>

\* A section step that puts its result in front of the earlier ones.
ResearchBody_ResultsNewestFirst(run) ==
    /\ status = "running" /\ pc = "researchBody"
    /\ LET settle(out) ==
               /\ Record(StepName(i + 1), << "section", i + 1 >>, out.result)
               /\ sectionResults' = << out.result >> \o sectionResults
               /\ i' = i + 1
               /\ pc' = "research"
               /\ attempts' = 0
               /\ e' = e
           logged(out) ==
               /\ settle(out)
               /\ bodyLog' = [section |-> i + 1, run |-> run,
                               context |-> ContextToUse(sections[i + 1],
                                                        SourcesOf(run.lookup)),
                               calls |-> out.calls]
       IN  logged(SectionBody(sections[i + 1], run.lookup, run.w1, run.w2))
    /\ UNCHANGED << status, payload, kv, plan, sections, issued, response,
                    lastPoll, parked, replayed, crashLog, puts, handlerPut, failure, planResponse,
                    compilePutThrew >>

\* A section step that also stores the report compiled so far.
ResearchBody_StoresPartialReport(run) ==
    /\ status = "running" /\ pc = "researchBody"
    /\ LET settle(out) ==
               /\ Record(StepName(i + 1), << "section", i + 1 >>, out.result)
               /\ sectionResults' = Append(sectionResults, out.result)
               /\ Put(ReportArtifact(query, Append(sectionResults, out.result)))
               /\ i' = i + 1
               /\ pc' = "research"
               /\ attempts' = 0
               /\ e' = e
           logged(out) ==
               /\ settle(out)
               /\ bodyLog' = [section |-> i + 1, run |-> run,
                               context |-> ContextToUse(sections[i + 1],
                                                        SourcesOf(run.lookup)),
                               calls |-> out.calls]
       IN  logged(SectionBody(sections[i + 1], run.lookup, run.w1, run.w2))
    /\ UNCHANGED << status, payload, plan, sections, issued, response,
                    lastPoll, parked, replayed, crashLog, puts, handlerPut, failure, planResponse,
                    compilePutThrew >>

\* The body of research-section-(i+1), then sectionResults.push(result).
ResearchBody(run) ==
    /\ status = "running" /\ pc = "researchBody"
    /\ LET settle(out) ==
               IF out.raised
               THEN /\ StepFailed("research", "Error: section step failed")
                    /\ UNCHANGED << checkpoint, recorded, sectionResults, i >>
               ELSE /\ Record(StepName(i + 1), << "section", i + 1 >>, out.result)
                    /\ sectionResults' = Append(sectionResults, out.result)
                    /\ i' = i + 1
                    /\ pc' = "research"
                    /\ attempts' = 0
                    /\ e' = e
           logged(out) ==
               /\ settle(out)
               /\ bodyLog' = [section |-> i + 1, run |-> run,
                               context |-> ContextToUse(sections[i + 1],
                                                        SourcesOf(run.lookup)),
                               calls |-> out.calls]
       IN  logged(SectionBody(sections[i + 1], run.lookup, run.w1, run.w2))
    /\ UNCHANGED << status, payload, kv, plan, sections, issued, response,
                    lastPoll, parked, replayed, crashLog, puts, handlerPut, failure, planResponse,
                    compilePutThrew >>

\* step.do("compile-report", ...) is reached.
CompileStep ==
    /\ status = "running" /\ pc = "compile"
    /\ IF Cached(CompileStepName)
       THEN /\ pc' = "end"
            /\ replayed' = replayed \cup {<< "compile", 0 >>}
       ELSE /\ pc' = "compilePut"
            /\ UNCHANGED replayed
    /\ UNCHANGED << status, payload, checkpoint, kv, plan, sections, i,
                    sectionResults, e, attempts, issued, response, lastPoll, parked,
                    recorded, crashLog, puts, handlerPut, failure, bodyLog, planResponse,
                    compilePutThrew >>

\* The try block of compile-report: build the report and put it.
CompilePut(stored) ==
    /\ status = "running" /\ pc = "compilePut"
    /\ puts' = [puts EXCEPT !.report = @ + 1]
    /\ IF stored
       THEN /\ Put(ReportArtifact(query, sectionResults))
            /\ pc' = "compileReturn"
            /\ UNCHANGED compilePutThrew
       ELSE /\ pc' = "compileCatch"
            /\ compilePutThrew' = TRUE
            /\ UNCHANGED kv
    /\ UNCHANGED << status, payload, checkpoint, plan, sections, i,
                    sectionResults, e, attempts, issued, response, lastPoll, parked,
                    recorded, replayed, crashLog, handlerPut, failure, bodyLog, planResponse >>

\* The body returned: the engine records compile-report.
CompileReturn ==
    /\ status = "running" /\ pc = "compileReturn"
    /\ Record(CompileStepName, << "compile", 0 >>, "done")
    /\ pc' = "end"
    /\ attempts' = 0
    /\ UNCHANGED << status, payload, kv, plan, sections, i, sectionResults, e,
                    issued, response, lastPoll, parked, replayed, crashLog, puts,
                    handlerPut, failure, bodyLog, planResponse, compilePutThrew >>

\* The catch block of compile-report: put the error artifact, then rethrow
\* (if this put throws too, its error leaves the body instead).
CompileCatch(stored) ==
    /\ status = "running" /\ pc = "compileCatch"
    /\ puts' = [puts EXCEPT !.error = @ + 1]
    /\ IF stored
       THEN Put(CompileErrorArtifact(query, KvError))
       ELSE UNCHANGED kv
    /\ StepFailed("compile", KvError)
    /\ UNCHANGED << status, payload, checkpoint, plan, sections, i,
                    sectionResults, issued, response, lastPoll, parked, recorded,
                    replayed, crashLog, handlerPut, failure, bodyLog, planResponse, compilePutThrew >>

\* run returned: the instance is complete.
Finish ==
    /\ status = "running" /\ pc = "end"
    /\ status' = "complete"
    /\ pc' = "idle"
    /\ UNCHANGED << payload, checkpoint, kv, plan, sections, i, sectionResults,
                    e, attempts, issued, response, lastPoll, parked >>
    /\ UNCHANGED history

\* A top-level catch block whose failing put is not swallowed: the put's
\* error takes the place of the exception being handled.
Handler_PutErrorEscapes(stored) ==
    /\ status = "running" /\ pc = "catch"
    /\ puts' = [puts EXCEPT !.error = @ + 1]
    /\ IF stored
       THEN /\ Put(WorkflowErrorArtifact(query, e))
            /\ handlerPut' = "ok"
            /\ e' = e
       ELSE /\ handlerPut' = "failed"
            /\ e' = KvError
            /\ UNCHANGED kv
    /\ pc' = "rethrow"
    /\ UNCHANGED << status, payload, checkpoint, plan, sections, i,
                    sectionResults, attempts, issued, response, lastPoll, parked,
                    recorded, replayed, crashLog, failure, bodyLog, planResponse, compilePutThrew >>

\* The top-level catch block: put the error artifact, swallowing a failure
\* of that put.
Handler(stored) ==
    /\ status = "running" /\ pc = "catch"
    /\ puts' = [puts EXCEPT !.error = @ + 1]
    /\ IF stored
       THEN /\ Put(WorkflowErrorArtifact(query, e))
            /\ handlerPut' = "ok"
       ELSE /\ handlerPut' = "failed"
            /\ UNCHANGED kv
    /\ pc' = "rethrow"
    /\ UNCHANGED << status, payload, checkpoint, plan, sections, i,
                    sectionResults, e, attempts, issued, response, lastPoll, parked,
                    recorded, replayed, crashLog, failure, bodyLog, planResponse, compilePutThrew >>

\* A top-level catch block that does not rethrow: run returns normally and
\* the engine records the instance as complete.
Rethrow_ErrorSwallowed ==
    /\ status = "running" /\ pc = "rethrow"
    /\ status' = "complete"
    /\ failure' = e
    /\ pc' = "idle"
    /\ UNCHANGED << payload, checkpoint, kv, plan, sections, i, sectionResults, bodyLog,
                    e, attempts, issued, response, lastPoll, parked, recorded,
                    replayed, crashLog, puts, handlerPut, compilePutThrew,
                    planResponse >>

\* throw e at the end of the top-level catch: the instance is errored.
Rethrow ==
    /\ status = "running" /\ pc = "rethrow"
    /\ status' = "errored"
    /\ failure' = e
    /\ pc' = "idle"
    /\ UNCHANGED << payload, checkpoint, kv, plan, sections, i, sectionResults, bodyLog,
                    e, attempts, issued, response, lastPoll, parked, recorded,
                    replayed, crashLog, puts, handlerPut, compilePutThrew,
                    planResponse >>

\* The engine loses the running invocation and drives run again from its
\* first line; only the durable state survives.
Crash ==
    /\ status = "running"
    /\ Len(crashLog) < MaxCrashes
    /\ crashLog' = Append(crashLog, Cardinality(recorded))
    /\ pc' = "plan"
    /\ plan' = NoPlan
    /\ sections' = << >>
    /\ i' = 0
    /\ sectionResults' = << >>
    /\ e' = ""
    /\ attempts' = 0
    /\ handlerPut' = "none"
    /\ replayed' = {}
    /\ puts' = [report |-> 0, error |-> 0]
    /\ compilePutThrew' = FALSE
    /\ UNCHANGED << status, payload, checkpoint, kv, issued, response,
                    lastPoll, parked, recorded, failure, bodyLog, planResponse >>

Next ==
    \/ \E q \in Queries, id \in SessionIds, created \in BOOLEAN : Submit(q, id, created)
    \/ \E id \in SessionIds : Poll(id)
    \/ PlanStep
    \/ \E call \in PlanCalls : PlanBody(call)
    \/ Validate
    \/ ResearchStep
    \/ /\ pc = "researchBody"
       /\ \E run \in SectionRuns(sections[i + 1]) : ResearchBody(run)
    \/ CompileStep
    \/ \E stored \in BOOLEAN : CompilePut(stored)
    \/ CompileReturn
    \/ \E stored \in BOOLEAN : CompileCatch(stored)
    \/ Finish
    \/ \E stored \in BOOLEAN : Handler(stored)
    \/ Rethrow
    \/ Crash

Spec == Init /\ [][Next]_vars

(***************************************************************************)
(* Several runs.  Each run is its own workflow instance: its payload, its  *)
(* checkpoints and the locals of run belong to it alone, and the runs      *)
(* share the RESEARCH_CACHE namespace.  The variables above hold the run   *)
(* whose steps are followed; parked holds the others, so that the steps of *)
(* different runs interleave in every order.                               *)
(***************************************************************************)

\* The state that belongs to the run followed.
Local ==
    [status |-> status, payload |-> payload, checkpoint |-> checkpoint,
     pc |-> pc, plan |-> plan, sections |-> sections, i |-> i,
     sectionResults |-> sectionResults, e |-> e, attempts |-> attempts,
     recorded |-> recorded, replayed |-> replayed, crashLog |-> crashLog,
     puts |-> puts, handlerPut |-> handlerPut, failure |-> failure,
     compilePutThrew |-> compilePutThrew, planResponse |-> planResponse,
     bodyLog |-> bodyLog]

\* The local state before a run exists.
NoRun ==
    [status |-> "none", payload |-> NoPayload, checkpoint |-> EmptyMap,
     pc |-> "idle", plan |-> NoPlan, sections |-> << >>, i |-> 0,
     sectionResults |-> << >>, e |-> "", attempts |-> 0,
     recorded |-> {}, replayed |-> {}, crashLog |-> << >>,
     puts |-> [report |-> 0, error |-> 0], handlerPut |-> "none",
     failure |-> "", compilePutThrew |-> FALSE, planResponse |-> "",
     bodyLog |-> NoBody]

\* The run followed becomes the run with local state l.
Follow(l) ==
    /\ status' = l.status /\ payload' = l.payload /\ checkpoint' = l.checkpoint
    /\ pc' = l.pc /\ plan' = l.plan /\ sections' = l.sections /\ i' = l.i
    /\ sectionResults' = l.sectionResults /\ e' = l.e /\ attempts' = l.attempts
    /\ recorded' = l.recorded /\ replayed' = l.replayed
    /\ crashLog' = l.crashLog /\ puts' = l.puts /\ handlerPut' = l.handlerPut
    /\ failure' = l.failure /\ compilePutThrew' = l.compilePutThrew
    /\ planResponse' = l.planResponse
    /\ bodyLog' = l.bodyLog

\* The steps of the run followed give way to another request or run.
Park ==
    /\ status # "none"
    /\ parked' = (sessionId :> Local) @@ parked
    /\ Follow(NoRun)
    /\ UNCHANGED << kv, issued, response, lastPoll >>

\* The steps of a parked run are followed again.
Resume(id) ==
    /\ status = "none"
    /\ id \in DOMAIN parked
    /\ Follow(parked[id])
    /\ parked' = [x \in DOMAIN parked \ {id} |-> parked[x]]
    /\ UNCHANGED << kv, issued, response, lastPoll >>

ConcurrentNext ==
    \/ \E q \in Queries, id \in SessionIds, created \in BOOLEAN : Submit(q, id, created)
    \/ Park
    \/ \E id \in SessionIds : Resume(id)
    \/ PlanStep
    \/ \E call \in {[throws |-> FALSE, response |-> PlanOne],
                     [throws |-> TRUE, response |-> ""]} : PlanBody(call)
    \/ Validate
    \/ ResearchStep
    \/ /\ pc = "researchBody"
       /\ \E run \in SectionRuns(sections[i + 1]) : ResearchBody(run)
    \/ CompileStep
    \/ \E stored \in BOOLEAN : CompilePut(stored)
    \/ CompileReturn
    \/ \E stored \in BOOLEAN : CompileCatch(stored)
    \/ Finish
    \/ \E stored \in BOOLEAN : Handler(stored)
    \/ Rethrow

ConcurrentSpec == Init /\ [][ConcurrentNext]_vars

(***************************************************************************)
(* The workflow of src/src/worker.ts: the same three steps without the     *)
(* validator and without catch blocks.  The head of its step.do calls and  *)
(* its endpoints read as those above and share their actions.              *)
(***************************************************************************)

\* extractJson of worker.ts: direct parse, fenced block (two patterns),
\* object boundaries; substring swaps its arguments when the last "}"
\* stands before the first "{".
WorkerExtractJson(text) ==
    LET firstOf(m, others) == IF m.found THEN m ELSE others
        fenced(jsonMatch) ==
            IF jsonMatch.found /\ jsonMatch.cap # ""
            THEN JsonParse(jsonMatch.cap)
            ELSE ParseFail
        between(start, end) ==
            IF end >= start THEN Sub(text, start, end)
            ELSE Sub(text, end + 1, start - 1)
        bounded(start, end) ==
            IF start # 0 /\ end # 0
            THEN OrElse(JsonParse(between(start, end)),
                        Thrown("Failed to extract JSON: " \o Sub(text, 1, 100) \o "..."))
            ELSE Thrown("No JSON found in response")
    IN  OrElse(IF text = "" THEN ParseFail ELSE JsonParse(text),
            OrElse(fenced(firstOf(LazyMatch(text, fence \o "json\n", "\n" \o fence),
                                  LazyMatch(text, fence \o "\n", "\n" \o fence))),
                   bounded(IndexOfFrom(text, "{", 1), LastIndexOf(text, "}"))))

\* sections = plan.sections || []: kind "typeError" when plan is null; the
\* elements of an array, the characters of a string, and no section for
\* any other value (its length is undefined).  readable = FALSE marks a
\* null element, whose title cannot be read.
WorkerOutline(parsed) ==
    LET section(v) ==
            [title    |-> SectionOf(v).title,
             focus    |-> SectionOf(v).focus,
             hasTitle |-> SectionOf(v).hasTitle,
             readable |-> ~ (v.t = "lit" /\ v.l = "null")]
        ofMember(m) ==
            IF ~ m.found \/ ~ Truthy(m.v) THEN << >>
            ELSE IF m.v.t = "arr" THEN [k \in 1..Len(m.v.a) |-> section(m.v.a[k])]
            ELSE IF m.v.t = "str"
            THEN [k \in 1..Len(m.v.s) |-> section([t |-> "str", s |-> CharAt(m.v.s, k)])]
            ELSE << >>
    IN  IF parsed.t = "lit" /\ parsed.l = "null"
        THEN [kind |-> "typeError", sections |-> << >>]
        ELSE [kind |-> "ok", sections |-> ofMember(GetMember(parsed, "sections"))]

\* The research-section body of worker.ts.  qs is the search-queries call,
\* lookup what the knowledge source did for the first query, w1 the
\* synthesis call, whose answer may lack the response field (present =
\* FALSE).  raised = TRUE is an exception leaving the body; hasContent =
\* FALSE is a result whose content is undefined.
WorkerSectionBody(section, qs, lookup, w1) ==
    LET raised == [raised |-> TRUE,
                   result |-> [title |-> section.title, content |-> "",
                               hasContent |-> FALSE, sources |-> << >>]]
        returned(content, present, sources) ==
            [raised |-> FALSE,
             result |-> [title |-> section.title, content |-> content,
                         hasContent |-> present,
                         sources |-> [k \in 1..Len(sources) |->
                                        [title |-> sources[k].title,
                                         url |-> sources[k].url]]]]
        written(sources) ==
            IF Len(sources) = 0
            THEN returned("No sources found for this section.", TRUE, << >>)
            ELSE IF w1.throws THEN raised
            ELSE returned(IF w1.present THEN w1.response ELSE "", w1.present, sources)
        searched(queries) ==
            IF ~ queries.found \/ ~ Truthy(queries.v) THEN written(<< >>)
            ELSE IF queries.v.t = "arr"
            THEN written(IF Len(queries.v.a) > 0 THEN SourcesOf(lookup) ELSE << >>)
            ELSE IF queries.v.t = "str" THEN written(SourcesOf(lookup))
            ELSE raised
        asked(queriesData) ==
            IF ~ queriesData.ok THEN raised
            ELSE IF queriesData.val.t = "lit" /\ queriesData.val.l = "null" THEN raised
            ELSE searched(GetMember(queriesData.val, "queries"))
    IN  IF ~ section.readable \/ qs.throws THEN raised
        ELSE asked(WorkerExtractJson(qs.response))

\* The report artifact put by compile-report of worker.ts: every result's
\* content is appended, an undefined one as the text "undefined".
WorkerReportArtifact(q, results) ==
    [query   |-> q,
     answer  |-> "# " \o q \o "\n\n"
                 \o Join([k \in 1..Len(results) |->
                             (IF results[k].hasContent
                              THEN results[k].content ELSE "undefined")
                             \o "\n\n"], ""),
     sources |-> UniqueSources(AllSources(results))]

\* What one execution of the research-section body of worker.ts can meet.
WorkerSectionRuns(section) ==
    [qs : {[throws |-> TRUE, response |-> ""],
           [throws |-> FALSE, response |-> "{\"queries\": [\"" \o section.title \o "\"]}"],
           [throws |-> FALSE, response |-> "No queries come to mind"]},
     lookup : {NoLookup("noHits"),
               [kind |-> "summary", title |-> section.title,
                extract |-> "A summary", url |-> WikiUrl \o section.title]},
     w1 : {[throws |-> TRUE, present |-> FALSE, response |-> ""],
           [throws |-> FALSE, present |-> FALSE, response |-> ""],
           [throws |-> FALSE, present |-> TRUE, response |-> ""],
           [throws |-> FALSE, present |-> TRUE,
            response |-> "## " \o section.title \o "\n\nWritten from the context."]}]

\* The body of plan-research in worker.ts: the planner call, then
\* extractJson; an error leaves the body as it is.
WorkerPlanBody(call) ==
    /\ status = "running" /\ pc = "planBody"
    /\ LET settle(r) ==
               IF r.ok
               THEN /\ Record(PlanStepName, << "plan", 0 >>, r.val)
                    /\ plan' = r.val
                    /\ pc' = "validate"
                    /\ attempts' = 0
                    /\ e' = e
               ELSE /\ StepFailed("plan", IF call.throws THEN AiError
                                          ELSE "Error: " \o r.err)
                    /\ UNCHANGED << checkpoint, recorded, plan >>
       IN  settle(IF call.throws THEN Thrown(AiError)
                  ELSE WorkerExtractJson(call.response))
    /\ planResponse' = IF call.throws THEN planResponse ELSE call.response
    /\ UNCHANGED << status, payload, kv, sections, i, sectionResults, issued,
                    response, lastPoll, parked, replayed, crashLog, puts, handlerPut,
                    failure, bodyLog, compilePutThrew >>

\* const sections = (plan as any).sections || [] and the start of the loop.
WorkerSections ==
    /\ status = "running" /\ pc = "validate"
    /\ LET read(outline) ==
               IF outline.kind = "typeError"
               THEN /\ e' = "TypeError: cannot read the plan"
                    /\ pc' = "catch"
                    /\ UNCHANGED << sections, i, sectionResults >>
               ELSE /\ sections' = outline.sections
                    /\ i' = 0
                    /\ sectionResults' = << >>
                    /\ pc' = "research"
                    /\ e' = e
       IN  read(WorkerOutline(plan))
    /\ UNCHANGED << status, payload, checkpoint, kv, plan, attempts, issued,
                    response, lastPoll, parked >>
    /\ UNCHANGED history

\* The body of research-section-(i+1) in worker.ts, then the push.
WorkerResearchBody(run) ==
    /\ status = "running" /\ pc = "researchBody"
    /\ LET settle(out) ==
               IF out.raised
               THEN /\ StepFailed("research", "Error: section step failed")
                    /\ UNCHANGED << checkpoint, recorded, sectionResults, i >>
               ELSE /\ Record(StepName(i + 1), << "section", i + 1 >>, out.result)
                    /\ sectionResults' = Append(sectionResults, out.result)
                    /\ i' = i + 1
                    /\ pc' = "research"
                    /\ attempts' = 0
                    /\ e' = e
       IN  settle(WorkerSectionBody(sections[i + 1], run.qs, run.lookup, run.w1))
    /\ UNCHANGED << status, payload, kv, plan, sections, issued, response,
                    lastPoll, parked, replayed, crashLog, puts, handlerPut, failure, bodyLog,
                    planResponse, compilePutThrew >>

\* The body of compile-report in worker.ts: build the report and put it; a
\* failed put leaves the body as an exception.
WorkerCompilePut(stored) ==
    /\ status = "running" /\ pc = "compilePut"
    /\ puts' = [puts EXCEPT !.report = @ + 1]
    /\ IF stored
       THEN /\ Put(WorkerReportArtifact(query, sectionResults))
            /\ pc' = "compileReturn"
            /\ UNCHANGED << compilePutThrew, attempts, e >>
       ELSE /\ StepFailed("compile", KvError)
            /\ compilePutThrew' = TRUE
            /\ UNCHANGED kv
    /\ UNCHANGED << status, payload, checkpoint, plan, sections, i,
                    sectionResults, issued, response, lastPoll, parked, recorded,
                    replayed, crashLog, handlerPut, failure, bodyLog, planResponse >>

\* An exception leaves run (worker.ts has no catch): the instance is errored.
WorkerThrow ==
    /\ status = "running" /\ pc = "catch"
    /\ status' = "errored"
    /\ failure' = e
    /\ pc' = "idle"
    /\ UNCHANGED << payload, checkpoint, kv, plan, sections, i, sectionResults, bodyLog,
                    e, attempts, issued, response, lastPoll, parked, recorded,
                    replayed, crashLog, puts, handlerPut, compilePutThrew,
                    planResponse >>

WorkerNext ==
    \/ \E q \in Queries, id \in SessionIds, created \in BOOLEAN : Submit(q, id, created)
    \/ PlanStep
    \/ \E call \in PlanCalls : WorkerPlanBody(call)
    \/ WorkerSections
    \/ ResearchStep
    \/ /\ pc = "researchBody"
       /\ \E run \in WorkerSectionRuns(sections[i + 1]) : WorkerResearchBody(run)
    \/ CompileStep
    \/ \E stored \in BOOLEAN : WorkerCompilePut(stored)
    \/ CompileReturn
    \/ Finish
    \/ WorkerThrow
    \/ Crash

WorkerSpec == Init /\ [][WorkerNext]_vars

(***************************************************************************)
(* The validator applied to a range of queries and candidate outlines: a   *)
(* run is followed from its submission to the end of lines 173-250.        *)
(***************************************************************************)

\* The largest candidate outline considered.
MaxOutline == 4

ValidationQueries ==
    {"Tea or coffee?", "Tea vs coffee", "Tea versus coffee?",
     "cereal with or without milk?", "cereal with or without milk",
     "cereal with or without milk vs oats?",
     "tea or coffee with or without milk?",
     "Quantum computing"}

\* The sections a planner response is made of.
SectionPool ==
    << [title |-> "Tea", focus |-> "leaves"],
       [title |-> "Coffee", focus |-> "beans"],
       [title |-> "Tea against coffee", focus |-> "verdict"],
       [title |-> "Bananas", focus |-> "fruit"],
       [title |-> "Milk", focus |-> "dairy"],
       [title |-> "Qubits", focus |-> "quantum bits"] >>

\* The candidate outlines: one to MaxOutline different sections of the pool.
CandidateOutlines ==
    LET ordered(S) ==
            [n \in 1..Cardinality(S) |->
                SectionPool[CHOOSE x \in S : Cardinality({y \in S : y < x}) = n - 1]]
    IN  {ordered(S) : S \in {T \in SUBSET (1..Len(SectionPool)) :
                                 Cardinality(T) \in 1..MaxOutline}}

\* The planner response that states an outline as JSON.
PlanText(outline) ==
    "{\"sections\":["
    \o Join([k \in 1..Len(outline) |->
                "{\"title\":\"" \o outline[k].title
                \o "\",\"focus\":\"" \o outline[k].focus \o "\"}"], ",")
    \o "]}"

ValidationNext ==
    \/ \E q \in ValidationQueries, id \in SessionIds, created \in BOOLEAN :
           Submit(q, id, created)
    \/ PlanStep
    \/ \E outline \in CandidateOutlines :
           PlanBody([throws |-> FALSE, response |-> PlanText(outline)])
    \/ Validate

ValidationSpec == Init /\ [][ValidationNext]_vars

(***************************************************************************)
(* extractJson applied to a range of planner responses: a run is followed  *)
(* from its submission to the end of the plan-research step.               *)
(***************************************************************************)

\* Well-formed JSON texts, bare or surrounded by white space: scalars and
\* a small object (atoms), arrays of up to two elements, and objects with
\* a "sections" or a "queries" member.
WellFormedTexts ==
    LET atoms == {"0", "-1.5", "true", "null", "\"tea\"", "{\"a\":1}"}
        arrays ==
            {"[]"} \cup {"[" \o a \o "]" : a \in atoms}
            \cup {"[" \o a \o ", " \o b \o "]" :
                      a \in atoms, b \in {"\"coffee\"", "[]"}}
        objects ==
            {"{}"}
            \cup {"{\"" \o key \o "\": " \o v \o "}" :
                     key \in {"sections", "queries"},
                     v \in atoms \cup {"[\"tea\", \"coffee\"]",
                                       "[{\"title\":\"Tea\",\"focus\":\"leaves\"}]"}}
        padded(bare) == bare \cup {" " \o t \o "\n" : t \in bare}
    IN  padded(atoms \cup arrays \cup objects)

\* Responses that are not JSON as a whole: a fenced outline with a trailing
\* comma, prose, prose of more than 200 characters, prose around an object,
\* lists with a trailing comma, an unterminated list, a bracketed list in
\* prose.
MalformedTexts ==
    LET refusal == "No outline can be given for this. "
        long == refusal \o refusal \o refusal \o refusal \o refusal
                \o refusal \o refusal
    IN  {PlanThree, PlanProse, long,
         "Sure: {\"sections\":[{\"title\":\"Tea\",\"focus\":\"leaves\"}]} Done.",
         "{\"queries\": [\"tea\", \"coffee\",]}",
         "[\"tea\", \"coffee\"",
         "Queries: [1, 2]",
         "{\"a\": [1],}"}

ExtractNext ==
    \/ \E q \in Queries, id \in SessionIds, created \in BOOLEAN :
           Submit(q, id, created)
    \/ PlanStep
    \/ \E text \in WellFormedTexts \cup MalformedTexts :
           PlanBody([throws |-> FALSE, response |-> text])

ExtractSpec == Init /\ [][ExtractNext]_vars

(***************************************************************************)
(* The research-section body on its inputs: a kept outline of two          *)
(* sections, "Tea" (no word of more than 3 characters) and "Coffee", each  *)
(* body meeting every combination of lookup and synthesis outcomes.        *)
(***************************************************************************)

SectionNext ==
    \/ \E id \in SessionIds, created \in BOOLEAN : Submit("Tea or coffee?", id, created)
    \/ PlanStep
    \/ PlanBody([throws |-> FALSE,
                 response |-> PlanText(<< SectionPool[1], SectionPool[2] >>)])
    \/ Validate
    \/ ResearchStep
    \/ /\ pc = "researchBody"
       /\ \E run \in AllSectionRuns(sections[i + 1]) : ResearchBody(run)

SectionSpec == Init /\ [][SectionNext]_vars

(***************************************************************************)
(* compile-report on its inputs: the same two sections, each body meeting  *)
(* every combination of outcomes, followed to the end of the run.          *)
(***************************************************************************)

CompileNext ==
    \/ \E id \in SessionIds, created \in BOOLEAN : Submit("Tea or coffee?", id, created)
    \/ PlanStep
    \/ PlanBody([throws |-> FALSE,
                 response |-> PlanText(<< SectionPool[1], SectionPool[2] >>)])
    \/ Validate
    \/ ResearchStep
    \/ /\ pc = "researchBody"
       /\ \E run \in AllSectionRuns(sections[i + 1]) : ResearchBody(run)
    \/ CompileStep
    \/ \E stored \in BOOLEAN : CompilePut(stored)
    \/ CompileReturn
    \/ \E stored \in BOOLEAN : CompileCatch(stored)
    \/ Finish
    \/ \E stored \in BOOLEAN : Handler(stored)
    \/ Rethrow

CompileSpec == Init /\ [][CompileNext]_vars

(***************************************************************************)
(* Properties.                                                             *)
(***************************************************************************)

Terminated == status \in {"complete", "errored"}

PlanRecorded == << "plan", 0 >> \in recorded

\* The outline every drive of the run derives from the checkpointed plan.
Outline ==
    LET sectionsOf(planned) ==
            IF planned.kind = "ok" THEN OutlineFor(query, planned.sections) ELSE << >>
    IN  sectionsOf(PlannedOutline(checkpoint[PlanStepName]))

\* The checkpointed results of sections 1..n.
RecordedResults(n) == [k \in 1..n |-> checkpoint[StepName(k)]]

Stored == sessionId \in DOMAIN kv

\* {query, answer: error message, sources: []} as put by either catch block.
IsErrorShaped(a) ==
    /\ a.sources = << >>
    /\ \/ OccursAt(a.answer, "# " \o a.query \o "\n\nError compiling report: ", 1)
       \/ OccursAt(a.answer, "# " \o a.query \o "\n\nWorkflow failed with error: ", 1)

\* C1: once a step's result is checkpointed, no drive of the run starts that
\* step's body again; a drive works with the recorded results, and a body
\* only starts when every earlier step is recorded.
C1_BodyStartsOnlyUnrecorded ==
    /\ (pc' = "planBody" /\ pc # "planBody") => << "plan", 0 >> \notin recorded
    /\ (pc' = "researchBody" /\ pc # "researchBody") =>
           /\ << "section", i + 1 >> \notin recorded
           /\ PlanRecorded
           /\ \A k \in 1..i : << "section", k >> \in recorded
    /\ (pc' = "compilePut" /\ pc # "compilePut") =>
           /\ << "compile", 0 >> \notin recorded
           /\ PlanRecorded
           /\ \A k \in 1..Len(sections) : << "section", k >> \in recorded
    /\ \A name \in DOMAIN checkpoint :
           name \in DOMAIN checkpoint' /\ checkpoint'[name] = checkpoint[name]

C1_DriveUsesRecorded ==
    /\ pc \in {"validate", "research", "researchBody", "compile"} =>
           PlanRecorded /\ plan = checkpoint[PlanStepName]
    /\ pc \in {"research", "researchBody", "compile", "compilePut"} =>
           /\ Len(sectionResults) = i
           /\ \A k \in 1..i : /\ << "section", k >> \in recorded
                              /\ sectionResults[k] = checkpoint[StepName(k)]

C1_CheckpointsNeverRecomputed ==
    [][C1_BodyStartsOnlyUnrecorded]_vars /\ []C1_DriveUsesRecorded

\* C1 witness: after a crash the drive took the plan and section 1 from
\* their checkpoints and started the body of section 2.
C1_Witness ==
    /\ Len(crashLog) >= 1
    /\ pc = "researchBody" /\ i = 1
    /\ {<< "plan", 0 >>, << "section", 1 >>} \subseteq replayed

\* C2: a section body only runs for a section without a checkpoint, and a
\* completed run has stored the report made of the content of all N
\* sections, each once, in outline order.
C2_ResumeKeepsAllSections ==
    /\ pc = "researchBody" => << "section", i + 1 >> \notin recorded
    /\ status = "complete" =>
           \E outline \in {Outline} :
               /\ \A k \in 1..Len(outline) :
                      /\ << "section", k >> \in recorded
                      /\ checkpoint[StepName(k)].title = outline[k].title
               /\ Stored
               /\ kv[sessionId].answer
                      = "# " \o query \o "\n\n"
                        \o Join([k \in 1..Len(outline) |->
                                    checkpoint[StepName(k)].content \o "\n\n"], "")

\* C2 witness: three sections, a crash right after the checkpoint of section
\* 1 (two steps recorded), section 1 replayed, sections 2 and 3 not, done.
C2_Witness ==
    /\ status = "complete"
    /\ Len(Outline) = 3
    /\ crashLog = << 2 >>
    /\ << "section", 1 >> \in replayed
    /\ << "section", 2 >> \notin replayed /\ << "section", 3 >> \notin replayed

\* C3 as stated: every run that has terminated, complete or errored, has an
\* artifact stored at its session key.
C3_TerminatedHasArtifact == Terminated => Stored

\* C3: a complete run has an artifact stored at its session key, and so has
\* an errored run unless the put of the top-level catch block failed.
C3_TerminatedHasArtifactUnlessPutFailed ==
    /\ status = "complete" => Stored
    /\ status = "errored" => Stored \/ handlerPut = "failed"

\* C3 witness: an errored run whose error artifact a poll has returned.
C3_Witness ==
    /\ status = "errored" /\ handlerPut = "ok"
    /\ Stored /\ lastPoll[sessionId] = [status |-> 200, body |-> kv[sessionId]]

\* C4 as stated: when the report put of compile-report has thrown, the run
\* ends errored with an error-shaped artifact at its session key.
C4_CompileFailureEndsErrored ==
    (Terminated /\ compilePutThrew) =>
        /\ status = "errored"
        /\ Stored /\ IsErrorShaped(kv[sessionId])

\* The exception run is handling, told from the durable state: a failed
\* plan step, an unusable plan, or a failed compile step.
IsOriginalException(x) ==
    IF ~ PlanRecorded THEN OccursAt(x, "Error: Planning failed: ", 1)
    ELSE \E planned \in {PlannedOutline(checkpoint[PlanStepName])} :
             CASE planned.kind = "empty" -> x = "Error: Planner generated no sections"
               [] planned.kind = "typeError" -> x = "TypeError: cannot read the plan"
               [] OTHER -> x = KvError

\* C5: a run is only failed after the top-level catch block has attempted
\* the put of {query, message, no sources} at the session key, and it is
\* failed with the exception that was caught, also when that put failed.
C5_HandlerPutsThenRethrowsOriginal ==
    /\ pc = "rethrow" =>
           /\ handlerPut \in {"ok", "failed"}
           /\ IsOriginalException(e)
           /\ handlerPut = "ok" =>
                  Stored /\ kv[sessionId] = WorkflowErrorArtifact(query, e)
    /\ status = "errored" =>
           /\ handlerPut \in {"ok", "failed"}
           /\ IsOriginalException(failure)
           /\ handlerPut = "ok" =>
                  /\ Stored
                  /\ kv[sessionId] = [query |-> query,
                                      answer |-> "# " \o query
                                                 \o "\n\nWorkflow failed with error: "
                                                 \o failure,
                                      sources |-> << >>]

\* C5 witness: the plan step failed, the error put failed too, and the run
\* is failed with the planning error.
C5_Witness ==
    /\ status = "errored" /\ handlerPut = "failed"
    /\ OccursAt(failure, "Error: Planning failed: ", 1)

\* C6: whatever fails inside a research-section body (lookup, synthesis,
\* retry), the body raises nothing and returns a result for its section;
\* so every section gets a checkpoint and the compile step is reached: the
\* top-level catch block is never entered between validation and compile.
C6_SectionStepNeverRaises ==
    /\ pc = "researchBody" =>
           \A run \in AllSectionRuns(sections[i + 1]) :
               \E out \in {SectionBody(sections[i + 1], run.lookup, run.w1, run.w2)} :
                   /\ ~ out.raised
                   /\ out.result.title = sections[i + 1].title
                   /\ out.result.content # ""
    /\ (pc \in {"catch", "rethrow"} /\ Len(sections) > 0) =>
           /\ \A k \in 1..Len(sections) : << "section", k >> \in recorded
           /\ compilePutThrew
    /\ e # "Error: section step failed"

\* C6 witness: lookup and synthesis failed for every section of a
\* three-section outline, and the run is complete.
C6_Witness ==
    /\ status = "complete"
    /\ Len(sectionResults) = 3
    /\ \A k \in 1..3 :
           /\ sectionResults[k].sources = << >>
           /\ Includes(sectionResults[k].content, "Error generating content")

\* C7 as stated: a run issues at most two puts to its session key, at most
\* one of the report and at most one of an error artifact.
C7_AtMostTwoWrites ==
    /\ puts.report + puts.error <= 2
    /\ puts.report <= 1
    /\ puts.error <= 1

\* C8 as stated: the artifact a poll has returned is the artifact stored
\* from then on, so that every later poll returns the same.
C8_PolledArtifactStays ==
    \A id \in SessionIds :
        lastPoll[id].status = 200 => id \in DOMAIN kv /\ kv[id] = lastPoll[id].body

EarlyPositions == {"plan", "planBody", "validate", "research", "researchBody"}

\* C9 as stated: while the run is planning, validating or researching a
\* section, nothing is stored at its session key and the poll answer is
\* "Not ready".
C9_NothingStoredBeforeCompile ==
    (status = "running" /\ pc \in EarlyPositions) =>
        ~ Stored /\ lastPoll[sessionId] = NotReady

\* C9: while a run that has not been re-driven is planning, validating or
\* researching a section, nothing is stored at its session key and the poll
\* answer is "Not ready"; and whatever is stored at any time is error-shaped
\* or the report of all the sections of the outline (compared as soon as
\* the drive has its outline), never a report of some of them.
C9_NothingStoredBeforeCompileOfFirstDrive ==
    /\ (status = "running" /\ pc \in EarlyPositions /\ crashLog = << >>) =>
           ~ Stored /\ lastPoll[sessionId] = NotReady
    /\ (Stored /\ ~ IsErrorShaped(kv[sessionId])) =>
           /\ PlanRecorded
           /\ Len(sections) > 0 =>
                  /\ \A k \in 1..Len(sections) : << "section", k >> \in recorded
                  /\ kv[sessionId]
                         = ReportArtifact(query, RecordedResults(Len(sections)))

\* C9 witness: the first drive is at the body of its third section, nothing
\* stored, the poll answer "Not ready".
C9_Witness ==
    /\ status = "running" /\ pc = "researchBody" /\ i = 2
    /\ crashLog = << >>
    /\ ~ Stored /\ lastPoll[sessionId] = NotReady

\* C10: the sources of a stored report hold every url cited by a section
\* exactly once.
C10_SourcesUniqueByUrl ==
    (Stored /\ ~ IsErrorShaped(kv[sessionId])) =>
        \E srcs \in {kv[sessionId].sources} :
            /\ \A a, b \in 1..Len(srcs) : srcs[a].url = srcs[b].url => a = b
            /\ \A k \in 1..Cardinality(recorded) :
                   << "section", k >> \in recorded =>
                       \A j \in 1..Len(checkpoint[StepName(k)].sources) :
                           \E a \in 1..Len(srcs) :
                               srcs[a].url = checkpoint[StepName(k)].sources[j].url

\* C10 witness: the first and the third section cite the same url, the
\* second cites another, and the stored report lists two sources.
C10_Witness ==
    /\ status = "complete"
    /\ Len(sectionResults) = 3
    /\ \A k \in 1..3 : Len(sectionResults[k].sources) = 1
    /\ sectionResults[1].sources[1].url = sectionResults[3].sources[1].url
    /\ sectionResults[2].sources[1].url # sectionResults[1].sources[1].url
    /\ Len(kv[sessionId].sources) = 2

\* The number of research-section steps checkpointed so far.
SectionsRecorded == Cardinality({n \in recorded : n[1] = "section"})

\* The sources of the checkpointed sections, in outline order.
CitedSources == AllSources(RecordedResults(SectionsRecorded))

\* C11 as stated: when several accumulated sources share a url, the entry
\* kept in the stored report (title and url) is the first one in outline
\* order, and kept entries appear in the order of their first occurrence.
C11_FirstOccurrenceWins ==
    (Stored /\ ~ IsErrorShaped(kv[sessionId])) =>
        LET firstWins(srcs, all) ==
                \A n \in 1..Len(srcs) :
                    \E k \in 1..Len(all) :
                        /\ srcs[n] = all[k]
                        /\ \A j \in 1..(k - 1) : all[j].url # all[k].url
                        /\ \A m \in 1..(n - 1) :
                               \E j \in 1..(k - 1) : all[j].url = srcs[m].url
        IN  firstWins(kv[sessionId].sources, CitedSources)

\* C11 amended: when several accumulated sources share a url, the entry
\* kept in the stored report is the last one in outline order (its title is
\* the last occurrence's), and kept entries appear in the order in which
\* their urls first occur.
C11_LastOccurrenceAtFirstPosition ==
    (Stored /\ ~ IsErrorShaped(kv[sessionId])) =>
        LET lastWins(srcs, all) ==
                \A n \in 1..Len(srcs) :
                    /\ \E k \in 1..Len(all) :
                           /\ srcs[n] = all[k]
                           /\ \A j \in (k + 1)..Len(all) : all[j].url # all[k].url
                    /\ \E k \in 1..Len(all) :
                           /\ srcs[n].url = all[k].url
                           /\ \A j \in 1..(k - 1) : all[j].url # all[k].url
                           /\ \A m \in 1..(n - 1) :
                                  \E j \in 1..(k - 1) : all[j].url = srcs[m].url
        IN  lastWins(kv[sessionId].sources, CitedSources)

\* C11 witness: the first section cites the page "Tea", the third cites the
\* same url under the title "Tea (plant)", and the stored report lists that
\* url first, under the third section's title.
C11_Witness ==
    /\ Stored /\ ~ IsErrorShaped(kv[sessionId])
    /\ SectionsRecorded = 3
    /\ checkpoint[StepName(1)].sources = << [title |-> "Tea", url |-> TeaUrl] >>
    /\ checkpoint[StepName(3)].sources = << [title |-> "Tea (plant)", url |-> TeaUrl] >>
    /\ Len(kv[sessionId].sources) = 2
    /\ kv[sessionId].sources[1] = [title |-> "Tea (plant)", url |-> TeaUrl]

\* C12: the list of section results keeps outline order: the k-th result
\* held has the title of the k-th outline section; while compile-report
\* runs the list holds one result per outline section; and a stored
\* report's answer is the heading followed by the checkpointed sections'
\* content in outline order.
C12_ResultsInOutlineOrder ==
    /\ Len(sectionResults) <= Len(sections)
    /\ \A k \in 1..Len(sectionResults) : sectionResults[k].title = sections[k].title
    /\ pc \in {"compile", "compilePut", "compileReturn", "compileCatch"} =>
           Len(sectionResults) = Len(sections)
    /\ (Stored /\ ~ IsErrorShaped(kv[sessionId])) =>
           kv[sessionId].answer =
               "# " \o query \o "\n\n"
               \o Join([k \in 1..SectionsRecorded |->
                            checkpoint[StepName(k)].content \o "\n\n"], "")

\* C12 witness: a completed run over the four-section fallback outline
\* whose report starts with the heading and the introduction section.
C12_Witness ==
    /\ status = "complete"
    /\ Len(sections) = 4 /\ Len(sectionResults) = 4
    /\ sectionResults[1].title = "Introduction to Quantum computing"
    /\ sectionResults[4].title = "Conclusion"
    /\ sectionResults[1].content # sectionResults[4].content
    /\ Stored
    /\ OccursAt(kv[sessionId].answer,
                "# Quantum computing\n\n" \o sectionResults[1].content \o "\n\n", 1)

\* The validator has just assigned the outline of this drive.
Validated == status = "running" /\ pc = "research" /\ i = 0

\* C13: for an outline of N >= 1 sections of which r are relevant, the
\* validator substitutes the fallback outline if and only if r < 0.75*N or
\* r = 0; with r = 3 and N = 4 the candidate outline is kept unchanged.
C13_FallbackIffBelowThreshold ==
    Validated =>
        LET decided(planned, r) ==
                /\ Len(planned) >= 1
                /\ (sections # planned) <=> (100 * r < 75 * Len(planned) \/ r = 0)
                /\ (r = 3 /\ Len(planned) = 4) => sections = planned
                /\ sections # planned => Len(sections) = 4
            counted(planned) ==
                decided(planned, RelevantCount(planned, MainTopics(query)))
        IN  counted(PlannedOutline(plan).sections)

\* C13 witness: for "Tea or coffee?" the outline Tea, Coffee, Tea against
\* coffee, Bananas (three of four sections relevant) is the one validated.
C13_Witness ==
    /\ Validated
    /\ query = "Tea or coffee?"
    /\ Len(sections) = 4
    /\ sections[1].title = "Tea" /\ sections[2].title = "Coffee"
    /\ sections[3].title = "Tea against coffee"
    /\ sections[4].title = "Bananas"

\* C14 as stated: a query "A or B", "A vs B" or "A versus B" (optionally
\* ending in "?") is a true comparison whose terms are exactly [A, B] in
\* lower case without the question mark, and the comparison fallback's two
\* About sections are about A and about B.  The comparison queries followed
\* here all have A = "Tea" and B = "coffee".
C14_ComparisonTermsAreTheTwoSides ==
    (Validated /\ query \in {"Tea or coffee?", "Tea vs coffee", "Tea versus coffee?"}) =>
        /\ IsTrueComparison(ToLowerCase(query))
        /\ MainTopics(query) = << "tea", "coffee" >>
        /\ sections # PlannedOutline(plan).sections =>
               /\ sections[2].title = "About Tea"
               /\ sections[3].title = "About coffee"

\* C15 as stated: a query "T with or without O" (with or without a trailing
\* "?") is not a true comparison, its relevance keywords are the topic T
\* and the option O, and its fallback outline is built from topic T (the
\* text before the phrase) and option O (the text after it).  The
\* dual-option queries followed here have T = "cereal" and O = "milk".
C15_DualOptionTopicAndOption ==
    (Validated /\ query \in {"cereal with or without milk?",
                             "cereal with or without milk"}) =>
        /\ ~ IsTrueComparison(ToLowerCase(query))
        /\ MainTopics(query) = << "cereal", "milk" >>
        /\ FallbackTopic(query) = "cereal"
        /\ FallbackOption(query) = "milk"
        /\ sections # PlannedOutline(plan).sections =>
               /\ sections[1].title = "Introduction: cereal"
               /\ sections[2].title = "cereal with milk"
               /\ sections[3].title = "cereal without milk"

\* C16 as stated: for the single-topic query "Quantum computing" and a
\* candidate outline in which no section mentions a keyword, the validated
\* outline is the four-section single-topic fallback, and every one of its
\* four titles contains a term of the query's topic.
C16_EveryFallbackTitleNamesTopic ==
    (Validated /\ query = "Quantum computing"
     /\ RelevantCount(PlannedOutline(plan).sections, MainTopics(query)) = 0) =>
        /\ Len(sections) = 4
        /\ \A k \in 1..4 :
               \/ Includes(ToLowerCase(sections[k].title), "quantum")
               \/ Includes(ToLowerCase(sections[k].title), "computing")

\* C16 amended: for the single-topic query "Quantum computing" and a
\* candidate outline in which no section mentions a keyword, the validated
\* outline is the four-section single-topic fallback: "Introduction to" and
\* "Key Aspects of" followed by the topic, then the fixed titles
\* "Applications and Examples" and "Conclusion", which do not name the topic.
C16_FallbackNamesTopicInFirstTwoTitles ==
    (Validated /\ query = "Quantum computing"
     /\ RelevantCount(PlannedOutline(plan).sections, MainTopics(query)) = 0) =>
        /\ Len(sections) = 4
        /\ sections[1].title = "Introduction to Quantum computing"
        /\ sections[2].title = "Key Aspects of Quantum computing"
        /\ sections[3].title = "Applications and Examples"
        /\ sections[4].title = "Conclusion"

\* C16 witness: the planner's outline for "Quantum computing" was Tea,
\* Coffee, Bananas, Milk (none relevant) and the validated outline is the
\* fallback.
C16_Witness ==
    /\ Validated /\ query = "Quantum computing"
    /\ Len(PlannedOutline(plan).sections) = 4
    /\ PlannedOutline(plan).sections[1].title = "Tea"
    /\ PlannedOutline(plan).sections[4].title = "Milk"
    /\ sections[1].title = "Introduction to Quantum computing"
    /\ sections[4].title = "Conclusion"

\* C17: a parsed plan with zero sections fails the run with "Planner
\* generated no sections" before the relevance check or a fallback runs: no
\* outline is assigned, no research-section or compile-report step starts
\* or is recorded, nothing but the error artifact is put, and the run ends
\* errored with that exception.
C17_EmptyPlanFailsFast ==
    (PlanRecorded /\ PlannedOutline(checkpoint[PlanStepName]).kind = "empty") =>
        /\ sections = << >> /\ sectionResults = << >>
        /\ pc \in {"plan", "validate", "catch", "rethrow", "idle"}
        /\ recorded = {<< "plan", 0 >>}
        /\ puts.report = 0
        /\ Stored => IsErrorShaped(kv[sessionId])
        /\ status # "complete"
        /\ status = "errored" => failure = "Error: Planner generated no sections"

\* C17 witness: the planner answered with an empty section list and the run
\* has ended errored after its top-level catch stored the error artifact.
C17_Witness ==
    /\ PlanRecorded
    /\ checkpoint[PlanStepName] = JsonParse(PlanEmpty).val
    /\ status = "errored"
    /\ failure = "Error: Planner generated no sections"
    /\ sections = << >>
    /\ Stored

\* C18: for a planner response that is well-formed JSON, extractJson
\* returns the value of parsing that text directly and does not throw: the
\* plan-research step is recorded with exactly that value.
C18_WellFormedJsonParsedDirectly ==
    LET direct(r) ==
            r.ok => /\ PlanRecorded
                    /\ checkpoint[PlanStepName] = r.val
                    /\ plan = r.val
                    /\ pc = "validate" /\ e = ""
    IN  /\ planResponse # "" => direct(JsonParse(planResponse))
        /\ planResponse \in WellFormedTexts => PlanRecorded

\* C18 witness: the response was a JSON array holding an object, padded
\* with white space, and the recorded plan is that array.
C18_Witness ==
    /\ planResponse = " [{\"a\":1}, \"coffee\"]\n"
    /\ PlanRecorded
    /\ checkpoint[PlanStepName].t = "arr"
    /\ Len(checkpoint[PlanStepName].a) = 2
    /\ checkpoint[PlanStepName].a[1].t = "obj"

\* C19 as stated: in either workflow variant, a research-section step whose
\* retrieval found no source returns a result with non-empty content, and
\* no research-section step returns a result whose content is empty or
\* missing (a missing content is held as the empty text).
C19_SectionContentNeverEmpty ==
    \A k \in 1..SectionsRecorded :
        /\ Len(checkpoint[StepName(k)].sources) = 0 =>
               checkpoint[StepName(k)].content # ""
        /\ checkpoint[StepName(k)].content # ""

\* The local states of all runs submitted so far.
AllRuns == {parked[id] : id \in DOMAIN parked} \cup (IF status = "none" THEN {} ELSE {Local})

\* The artifact stored under a run's key is that run's own: it carries the
\* run's query and is the report of the run's own checkpointed sections or
\* an error artifact of the run's own exception.
OwnArtifact(r) ==
    LET id == r.payload.sessionId
        q == r.payload.query
        n == Cardinality({s \in r.recorded : s[1] = "section"})
        own(a) ==
            /\ a.query = q
            /\ IF IsErrorShaped(a)
               THEN a \in {CompileErrorArtifact(q, KvError), WorkflowErrorArtifact(q, r.e)}
               ELSE a = ReportArtifact(q, [k \in 1..n |-> r.checkpoint[StepName(k)]])
    IN  /\ id \in DOMAIN kv => own(kv[id])
        /\ r.status = "complete" => id \in DOMAIN kv /\ ~ IsErrorShaped(kv[id])
        /\ r.handlerPut = "ok" => id \in DOMAIN kv /\ IsErrorShaped(kv[id])

\* C20: when runs with distinct session ids interleave, a step of a run
\* puts only to that run's session key, every stored key is the key of a
\* run, and the artifact stored under a run's key is the one that run
\* produces from its own query and sections, whatever the other runs do.
C20_RunsKeepToTheirKey ==
    /\ [](/\ \A r \in AllRuns : OwnArtifact(r)
          /\ DOMAIN kv \subseteq {r.payload.sessionId : r \in AllRuns})
    /\ [][\A id \in DOMAIN kv' :
              (id \notin DOMAIN kv \/ kv'[id] # kv[id]) => id = sessionId]_vars

\* C20 witness: two runs with different queries are under way at once; the
\* one followed has just put its report while the parked one, which put
\* its report before, has not returned from compile-report yet.
C20_Witness ==
    /\ status = "running" /\ pc = "compileReturn" /\ sessionId = "s2"
    /\ "s1" \in DOMAIN parked
    /\ parked["s1"].status = "running" /\ parked["s1"].pc = "compileReturn"
    /\ parked["s1"].payload.query # query
    /\ DOMAIN kv = {"s1", "s2"}
    /\ kv["s1"].query = parked["s1"].payload.query
    /\ kv["s2"].query = query

\* C21: each successful submit creates exactly one run under a session id
\* never issued before, which is at once the id the engine holds the run
\* under, the run's sessionId parameter and the key answered to the caller;
\* a submit whose workflow creation failed creates no run and answers an
\* error without a session id.
C21_SubmitCreatesOneRunUnderFreshId ==
    /\ [](/\ \A a, b \in AllRuns : a.payload.sessionId = b.payload.sessionId => a = b
          /\ \A r \in AllRuns : r.payload.sessionId \in issued
          /\ \A id \in DOMAIN parked : parked[id].payload.sessionId = id
          /\ response.status = 200 =>
                 /\ response.error = ""
                 /\ \E r \in AllRuns : r.payload.sessionId = response.sessionId
          /\ response.status = 500 => response.sessionId = "" /\ response.error # "")
    /\ [][issued' # issued =>
              \E id \in issued' \ issued :
                  /\ issued' = issued \cup {id}
                  /\ parked' = parked /\ kv' = kv /\ status = "none"
                  /\ IF response'.status = 200
                     THEN /\ response'.sessionId = id
                          /\ status' = "running" /\ payload'.sessionId = id
                     ELSE /\ response'.status = 500 /\ response'.sessionId = ""
                          /\ status' = "none"]_vars

\* C21 witness: a second submit has just succeeded under the id "s2" while
\* the run created by the first is parked under "s1".
C21_Witness ==
    /\ issued = {"s1", "s2"}
    /\ DOMAIN parked = {"s1"} /\ parked["s1"].status = "running"
    /\ status = "running" /\ pc = "plan" /\ sessionId = "s2"
    /\ response = [status |-> 200, sessionId |-> "s2", error |-> ""]

\* The steps whose results the engine holds when the first k sections are
\* done.
DoneThrough(k) == {PlanStepName} \cup {StepName(n) : n \in 1..k}

Phase ==
    CASE status = "none" -> "None"
      [] status = "complete" -> "Done"
      [] status = "errored" -> "Errored"
      [] pc \in {"plan", "planBody"} -> "Planning"
      [] pc = "validate" -> "Validating"
      [] pc \in {"research", "researchBody"} -> "Researching"
      [] pc \in {"catch", "rethrow"} -> "Handling"
      [] OTHER -> "Compiling"

\* C23: a run goes Planning -> Validating -> Researching(0..N-1) ->
\* Compiling -> Done, a drive cut short by the engine starting over at
\* Planning; Errored and Done are terminal: an errored run executes no
\* further step body, records nothing more and never becomes Done, and a
\* run that is Done never becomes Errored.
C23_PhasesInOrderAndTerminal ==
    [][/\ Phase \in {"Errored", "Done"} =>
              /\ Phase' = Phase
              /\ pc' = "idle"
              /\ << checkpoint, kv, recorded, puts >>' = << checkpoint, kv, recorded, puts >>
       /\ Phase' # Phase =>
              \/ crashLog' # crashLog /\ Phase' = "Planning"
              \/ Phase = "None" /\ Phase' = "Planning"
              \/ Phase = "Planning" /\ Phase' = "Validating"
              \/ Phase = "Validating" /\ Phase' = "Researching" /\ i' = 0
              \/ Phase = "Researching" /\ Phase' = "Compiling" /\ i = Len(sections)
              \/ Phase = "Compiling" /\ Phase' = "Done"
              \/ Phase \in {"Planning", "Validating", "Researching", "Compiling"}
                     /\ Phase' = "Handling"
              \/ Phase = "Handling" /\ Phase' = "Errored"
       /\ Phase = "Researching" /\ Phase' = "Researching" =>
              /\ i' \in {i, i + 1}
              /\ i' <= Len(sections)]_vars

\* C23 witness: a run is Errored after its sections were researched (the
\* report could not be stored), and was polled in that state.
C23_Witness ==
    /\ status = "errored" /\ pc = "idle"
    /\ Cached(StepName(1)) /\ ~ Cached(CompileStepName)
    /\ lastPoll[sessionId].status = 200

\* C24: when the put of the report in compile-report fails, exactly one
\* further put is attempted by the run, the one carrying the error-shaped
\* artifact, whether or not that put succeeds: a terminated run whose
\* report put has thrown made one report put and one error put.
C24_OneFurtherPutAfterFailedWrite ==
    (Terminated /\ compilePutThrew) =>
        /\ puts.report = 1
        /\ puts.error = 1

\* The error the plan-research body raises for the response last received,
\* when extractJson rejects it.
PlanningFailedFor(text) == "Error: Planning failed: Error: " \o extractJson(text).err

Unparsable(text) == text # "" /\ ~ extractJson(text).ok

\* C25 as stated: once a Plan response cannot be parsed by extractJson the
\* run is on its way to Errored (or Errored) with the planning failure.
C25_UnparsablePlanEndsRun ==
    (status # "none" /\ Unparsable(planResponse)) =>
        /\ Phase \in {"Handling", "Errored"}
        /\ PlanningFailedFor(planResponse) \in {e, failure}

\* C25 amended: a Plan response that extractJson rejects fails the attempt
\* of plan-research that received it; the engine runs the body again while
\* attempts remain, and when the last attempt fails too the run goes to
\* Errored with the planning failure, which is not the empty-plan error;
\* as long as no attempt has succeeded no research-section step executes.
C25_PlanningFailsAfterLastAttempt ==
    /\ [](~ Cached(PlanStepName) =>
              /\ Phase \in {"None", "Planning", "Handling", "Errored"}
              /\ recorded = {} /\ sectionResults = << >>
              /\ Phase = "Handling" => Sub(e, 1, 23) = "Error: Planning failed:"
              /\ Phase = "Errored" => Sub(failure, 1, 23) = "Error: Planning failed:")
    /\ [][(pc = "planBody" /\ pc' # pc /\ crashLog' = crashLog
               /\ Unparsable(planResponse') /\ ~ Cached(PlanStepName)') =>
              IF attempts + 1 < MaxStepAttempts
              THEN pc' = "plan" /\ attempts' = attempts + 1
              ELSE /\ pc' = "catch"
                   /\ e' \in {PlanningFailedFor(planResponse'),
                              "Error: Planning failed: " \o AiError}]_vars

\* C25 witness: the run is Errored with the planning failure raised for a
\* response in prose, nothing having been researched.
C25_Witness ==
    /\ status = "errored"
    /\ planResponse = PlanProse
    /\ failure = "Error: Planning failed: Error: No JSON found in response: "
                     \o PlanProse
    /\ recorded = {}

\* The outline is the dual-option fallback: its four sections are built
\* around one topic taken with and without one option.
IsDualOptionFallback(outline, topic, option) ==
    /\ Len(outline) = 4
    /\ outline[1].title = "Introduction: " \o topic
    /\ outline[2].title = topic \o " with " \o option
    /\ outline[3].title = topic \o " without " \o option
    /\ outline[4].title = "Comparison and Conclusion"

\* C26: the dual-option pattern is checked first: a query that contains
\* " with or without " is never a true comparison, also when it contains
\* " vs ", " versus " or another " or ", and when its outline is replaced
\* the replacement is the dual-option fallback.
C26_DualOptionCheckedFirst ==
    (Validated /\ Includes(ToLowerCase(query), " with or without ")) =>
        /\ ~ IsTrueComparison(ToLowerCase(query))
        /\ sections # PlannedOutline(plan).sections =>
               IsDualOptionFallback(sections, FallbackTopic(query),
                                    FallbackOption(query))

\* C27: whenever the fallback replaces the planned outline the result has
\* exactly 4 sections shaped by the class of the query: for a comparison
\* Introduction / About A / About B / Comparison, A and B being the two
\* compared terms; for a dual-option query Introduction / topic with option
\* / topic without option / Comparison; for a single topic Introduction /
\* Key Aspects / Applications / Conclusion.
C27_FallbackShapedByClass ==
    (Validated /\ sections # PlannedOutline(plan).sections) =>
        LET titles == [k \in 1..Len(sections) |-> sections[k].title]
        IN  /\ Len(sections) = 4
            /\ query \in {"Tea or coffee?", "Tea vs coffee", "Tea versus coffee?"} =>
                   titles = << "Introduction: Tea vs coffee", "About Tea",
                               "About coffee", "Comparison and Conclusion" >>
            /\ query = "cereal with or without milk?" =>
                   IsDualOptionFallback(sections, "cereal", "milk")
            /\ query = "Quantum computing" =>
                   titles = << "Introduction to Quantum computing",
                               "Key Aspects of Quantum computing",
                               "Applications and Examples", "Conclusion" >>

\* The outline passes the relevance check for the query: it is non-empty,
\* some section mentions a keyword, and at least 75% of the sections do.
PassesRelevanceCheck(outline, q) ==
    LET passes(r) == r > 0 /\ 100 * r >= 75 * Len(outline)
    IN  /\ Len(outline) >= 1
        /\ passes(RelevantCount(outline, MainTopics(q)))

\* C28 as stated: every outline that leaves validation, kept or
\* substituted, passes the relevance check for its query.
C28_ValidatedOutlinePassesCheck ==
    Validated => PassesRelevanceCheck(sections, query)

\* C28 amended: every outline that leaves validation is non-empty; a kept
\* outline passes the relevance check for its query, and a substituted
\* fallback has 4 sections and is not checked again.
C28_KeptOutlinePassesCheck ==
    Validated =>
        /\ Len(sections) >= 1
        /\ sections = PlannedOutline(plan).sections =>
               PassesRelevanceCheck(sections, query)
        /\ sections # PlannedOutline(plan).sections => Len(sections) = 4

\* C28 witness: a three-section outline with two relevant sections was
\* replaced by the single-topic fallback, of which two sections of four
\* mention a keyword of the query.
C28_Witness ==
    /\ Validated /\ query = "Quantum computing"
    /\ Len(PlannedOutline(plan).sections) = 3
    /\ sections # PlannedOutline(plan).sections
    /\ RelevantCount(sections, MainTopics(query)) = 2

\* The six recovery tactics, each applied to the text on its own: direct
\* parse, fenced block, first "{" to last "}", the same without trailing
\* commas, bracketed list as {queries: [...]}, quoted substrings as
\* {queries: [...]}; a tactic is an [ok, val] pair.
Tactics(text) ==
    LET tried(r) == [ok |-> r.ok, val |-> r.val]
        failed == tried(ParseFail)
        wrapped(r) == IF r.ok THEN [ok |-> TRUE, val |-> QueriesObject(r.val)]
                      ELSE failed
        fenced(m) == IF m.found /\ m.cap # "" THEN tried(JsonParse(Trim(m.cap)))
                     ELSE failed
        bracketed(m) == IF m.found THEN wrapped(JsonParse("[" \o m.cap \o "]"))
                        ELSE failed
        quoted(q) ==
            IF Len(q) > 0
            THEN [ok |-> TRUE,
                  val |-> QueriesObject(
                              [t |-> "arr",
                               a |-> [k \in 1..Len(q) |-> [t |-> "str", s |-> q[k]]]])]
            ELSE failed
        braces(start, end) ==
            IF start # 0 /\ end > start
            THEN << tried(JsonParse(Sub(text, start, end))),
                    tried(JsonParse(RemoveTrailingCommas(Sub(text, start, end)))) >>
            ELSE << failed, failed >>
    IN  << tried(JsonParse(Trim(text))), fenced(FencedBlock(text)) >>
        \o braces(IndexOfFrom(text, "{", 1), LastIndexOf(text, "}"))
        \o << bracketed(LazyMatch(text, "[", "]")), quoted(QuotedStrings(text, 1)) >>

\* The first tactic of the sequence that succeeded (0: none did).
FirstSuccess(tactics) ==
    IF \A k \in 1..Len(tactics) : ~ tactics[k].ok THEN 0
    ELSE CHOOSE k \in 1..Len(tactics) :
             tactics[k].ok /\ \A j \in 1..(k - 1) : ~ tactics[j].ok

\* C29: extractJson returns the value of the first of its six tactics, in
\* their fixed order, that succeeds on the text, every tactic being tried
\* when all the earlier ones failed (the bracketed list also for a text
\* without braces); it throws only when none succeeds.
C29_FirstSuccessfulTacticWins ==
    planResponse # "" =>
        LET settled(tactics, k) ==
                IF k = 0 THEN ~ PlanRecorded
                ELSE PlanRecorded /\ checkpoint[PlanStepName] = tactics[k].val
            first(tactics) == settled(tactics, FirstSuccess(tactics))
        IN  first(Tactics(planResponse))

\* C30: extractJson fails only when every one of its recovery tactics has
\* failed on the text, and the error then raised carries the first 200
\* characters of the text; a failure records no value for the step.
C30_FailsOnlyWhenEveryTacticFailed ==
    (planResponse # "" /\ ~ PlanRecorded) =>
        /\ \A k \in 1..6 : ~ Tactics(planResponse)[k].ok
        /\ plan = NoPlan
        /\ pc = "catch" =>
               e = "Error: Planning failed: Error: No JSON found in response: "
                       \o Sub(planResponse, 1, 200)

\* The section whose body was executed last, and the result recorded for it.
LoggedSection == sections[bodyLog.section]

LoggedResult == checkpoint[StepName(bodyLog.section)]

\* The content the first synthesis call left in sectionContent.
FirstContent(section, w1) ==
    IF w1.response # "" THEN w1.response
    ELSE "## " \o section.title \o "\n\nContent generation failed."

\* The title has a word of more than 3 characters and no such word occurs
\* in the text, letter case aside.
OffTopic(title, text) ==
    LET longWords(ws) == {ws[k] : k \in {n \in 1..Len(ws) : Len(ws[n]) > 3}}
        missing(ws) == ws # {} /\ \A w \in ws : ~ Includes(ToLowerCase(text), w)
    IN  missing(longWords(SplitWs(ToLowerCase(title))))

\* C31: one execution of a research-section body invokes synthesis once,
\* and a second time exactly when the first call answered and its content
\* is off the section's topic; never a third time, whatever the retry
\* answered.
C31_SynthesisRetriedAtMostOnce ==
    bodyLog.section # 0 =>
        /\ bodyLog.calls \in {1, 2}
        /\ bodyLog.calls = 2 <=>
               /\ ~ bodyLog.run.w1.throws
               /\ OffTopic(LoggedSection.title,
                           FirstContent(LoggedSection, bodyLog.run.w1))

\* C31 witness: the first content was off topic, the retry answered off
\* topic as well, and its answer was taken after two calls.
C31_Witness ==
    /\ bodyLog.section = 2 /\ bodyLog.calls = 2
    /\ bodyLog.run.w1.response = "Bananas are yellow."
    /\ bodyLog.run.w2.response = "Apples are red."
    /\ LoggedResult.content = "Apples are red."

\* C32: when the on-topic retry of synthesis fails, by raising an error or
\* by answering nothing, the content of the section's result is the first
\* synthesis result, unchanged.
C32_FailedRetryKeepsFirstContent ==
    (/\ bodyLog.section # 0 /\ bodyLog.calls = 2
     /\ bodyLog.run.w2.throws \/ bodyLog.run.w2.response = "") =>
        LoggedResult.content = FirstContent(LoggedSection, bodyLog.run.w1)

\* C33: a lookup that throws or is answered "not OK" is not repeated,
\* yields no source and raises nothing: the body goes on to synthesis,
\* which is given the general-knowledge context, and its result is
\* recorded with an empty source list.
C33_FailedLookupDegrades ==
    (bodyLog.section # 0 /\ bodyLog.run.lookup.kind \in {"throws", "notOk"}) =>
        /\ Cached(StepName(bodyLog.section))
        /\ pc \notin {"catch", "rethrow"} /\ attempts = 0
        /\ bodyLog.calls >= 1
        /\ bodyLog.context =
               "Section Focus: " \o LoggedSection.focus
               \o "\n\nNote: No external sources were found. Please write about the section title using general knowledge."
        /\ LoggedResult.sources = << >>
        /\ ~ bodyLog.run.w1.throws =>
               LoggedResult.content \in {FirstContent(LoggedSection, bodyLog.run.w1),
                                         bodyLog.run.w2.response,
                                         "## " \o LoggedSection.title
                                         \o "\n\nError generating content: " \o AiError}

\* C33 witness: the search of the second section was answered "not OK" and
\* the section was written from the first synthesis answer, without source.
C33_Witness ==
    /\ bodyLog.section = 2 /\ bodyLog.run.lookup.kind = "notOk"
    /\ bodyLog.calls = 1
    /\ LoggedResult = [title |-> "Coffee", content |-> "## Coffee\n\nText.",
                       sources |-> << >>]

\* The content states that synthesis failed.
StatesFailure(result) ==
    result.content = "## " \o result.title \o "\n\nError generating content: "
                     \o AiError

\* C34 as stated: when an error is raised in the body (by the lookup, by
\* the synthesis call or by the retry of the self-check), the content of
\* the section's result states the failure and its source list is empty.
C34_ErrorGivesFailureAndNoSources ==
    (/\ bodyLog.section # 0
     /\ \/ bodyLog.run.lookup.kind = "throws"
        \/ bodyLog.run.w1.throws
        \/ bodyLog.calls = 2 /\ bodyLog.run.w2.throws) =>
        /\ StatesFailure(LoggedResult)
        /\ LoggedResult.sources = << >>

\* C34 amended: when the synthesis call or the retry of the self-check
\* raises an error, the content of the section's result states the failure
\* and the source list holds the sources the lookup found; an error of the
\* lookup alone leaves no source and the section is written as usual.
C34_SynthesisErrorKeepsSources ==
    bodyLog.section # 0 =>
        LET threw == \/ bodyLog.run.w1.throws
                     \/ bodyLog.calls = 2 /\ bodyLog.run.w2.throws
            found == bodyLog.run.lookup.kind \in {"summary", "snippet"}
        IN  /\ StatesFailure(LoggedResult) <=> threw
            /\ LoggedResult.sources =
                   IF found
                   THEN << [title |-> bodyLog.run.lookup.title,
                            url |-> bodyLog.run.lookup.url] >>
                   ELSE << >>

\* C34 witness: the lookup found a summary and the synthesis call threw:
\* the result states the failure and cites the source.
C34_Witness ==
    /\ bodyLog.section = 2
    /\ bodyLog.run.lookup.kind = "summary" /\ bodyLog.run.w1.throws
    /\ StatesFailure(LoggedResult)
    /\ Len(LoggedResult.sources) = 1
    /\ LoggedResult.sources[1].url = WikiUrl \o "Coffee"

\* C35: in the workflow of src/src/worker.ts too, a run that has terminated
\* has an artifact of its query stored at its session key: a failure of
\* the plan step, of a research-section step or of the compile put ends
\* the run with an artifact (possibly error-shaped) for its poller.
C35_WorkerRunLeavesArtifact ==
    status = "errored" =>
        /\ sessionId \in DOMAIN kv
        /\ kv[sessionId].query = query

\* C36: validation and fallback generation are evaluated anew by every
\* drive, outside the steps, and give the same outline for the same query
\* and checkpointed plan: in every drive the outline is the one determined
\* by the query and the recorded plan, every recorded section result
\* belongs to the section at its position in that outline, and no result is
\* recorded beyond the outline's length.
C36_OutlineSameOnEveryDrive ==
    /\ [](Phase \in {"Researching", "Compiling"} =>
              \A k \in 1..SectionsRecorded :
                  /\ k <= Len(sections)
                  /\ checkpoint[StepName(k)].title = sections[k].title)
    /\ [][/\ (pc = "validate" /\ pc' = "research") =>
                  (/\ checkpoint' = checkpoint /\ recorded' = recorded
                   /\ query' = query
                   /\ sections' = Outline)
          /\ (Phase \in {"Researching", "Compiling"} /\ crashLog' = crashLog) =>
                  sections' = sections]_vars

\* C36 witness: a run whose outline was replaced by the fallback crashed
\* after its first section was recorded; the drive that followed validated
\* again, took the first result from its checkpoint and runs the body of
\* the second section.
C36_Witness ==
    /\ Len(crashLog) = 1 /\ crashLog[1] = 2
    /\ status = "running" /\ pc = "researchBody" /\ i = 1
    /\ sections = FallbackOutline(query)
    /\ << "section", 1 >> \in replayed

\* C37: the query class plannerPrompt uses to build the prompt and the
\* query class the validator and the fallback generator of run use agree
\* for every query: no query is dual-option at one site and a comparison
\* or a single topic at the other.
C37_QueryClassesAgree ==
    Validated => PlannerPromptClass(query) = FallbackClass(query)

\* C38: once the complete report has been stored at the session key of a
\* run, no later action of the run replaces it with an error-shaped
\* artifact: a poller that has been given the report finds, at every later
\* moment, an artifact at the key that is not error-shaped.
C38_ReportNeverReplacedByError ==
    \A id \in SessionIds :
        (lastPoll[id].status = 200 /\ ~ IsErrorShaped(lastPoll[id].body)) =>
            /\ id \in DOMAIN kv
            /\ ~ IsErrorShaped(kv[id])

\* C39: compile loses no source: the urls listed by a stored report are
\* exactly the urls cited by the checkpointed section results, those of a
\* section whose content reports a failure included, and no other url.
C39_CompileLosesNoSource ==
    (Stored /\ ~ IsErrorShaped(kv[sessionId])) =>
        LET urls(srcs) == {srcs[k].url : k \in 1..Len(srcs)}
        IN  urls(kv[sessionId].sources) = urls(CitedSources)

\* C39 witness: a completed run of two or more sections in which a section
\* whose synthesis failed had found a source that no other section cites,
\* and the stored report lists that source among others.
C39_Witness ==
    /\ status = "complete" /\ Stored
    /\ Len(kv[sessionId].sources) >= 2
    /\ \E k \in 1..Len(sectionResults) :
           /\ Includes(sectionResults[k].content, "Error generating content")
           /\ Len(sectionResults[k].sources) = 1
           /\ \A j \in 1..Len(sectionResults) :
                  j # k => \A n \in 1..Len(sectionResults[j].sources) :
                               sectionResults[j].sources[n].url
                                   # sectionResults[k].sources[1].url
           /\ \E n \in 1..Len(kv[sessionId].sources) :
                  kv[sessionId].sources[n] = sectionResults[k].sources[1]

====
